---------------------------- MODULE Spec2Model ----------------------------
(***************************************************************************)
(* A model of the transcript-to-candidate extraction service:              *)
(*   backend/services/nlp.py  (the extraction engine and the lazily loaded *)
(*   entity tagger handle),                                                *)
(*   backend/services/db.py   (validation and storage of candidates),      *)
(*   backend/app.py           (the process_audio workflow).                *)
(*                                                                         *)
(* Transcripts are TLA+ strings.  TLC evaluates Len, \o and SubSeq on      *)
(* strings, so every extractor is translated character by character from  *)
(* the Python source; regular expressions are translated into matchers     *)
(* that return what re.search / re.findall return (leftmost match, greedy  *)
(* quantifiers, backtracking order).                                       *)
(*                                                                         *)
(* Python's None is the empty tuple <<>> and a present value v is <<v>>,   *)
(* so that an absent field differs from every string, the empty string     *)
(* included.                                                               *)
(***************************************************************************)
EXTENDS Integers, Sequences, FiniteSets, TLC

VARIABLES
    nlp,        \* the module global _nlp: "None", "False" or "Model"
    calls,      \* number of calls made so far in this process
    earlier,    \* record of an earlier extract_candidate_info call, kept for comparison
    last,       \* record of the most recent call
    loads,      \* number of spacy.load attempts performed so far
    assigns,    \* number of assignments to _nlp performed so far
    pc,         \* concurrent callers of load_nlp_model: position of each
    fetched,    \* concurrent callers: outcome of the caller's spacy.load
    subject,    \* pure-function specifications: the input under test
    uploads,    \* the files that exist in UPLOAD_DIR
    candidates, \* the rows of the candidates table, in insertion order
    request,    \* the request being served: its position and what it holds
    seen,       \* concurrent callers: the handle the caller found at its check
    sequence,   \* the largest id the candidates table has given out
    transfer    \* the request to upload_audio being served

vars ==
    <<nlp, calls, earlier, last, loads, assigns, pc, fetched, subject, uploads,
      candidates, request, seen, sequence, transfer>>

---------------------------------------------------------------------------
(* Python values *)

None == <<>>
Some(v) == <<v>>
IsNone(o) == o = <<>>
Get(o) == o[1]

---------------------------------------------------------------------------
(* Characters and Python string methods *)

LowerAlpha == "abcdefghijklmnopqrstuvwxyz"
UpperAlpha == "ABCDEFGHIJKLMNOPQRSTUVWXYZ"
DigitChars == "0123456789"
\* printable ASCII characters in code point order (the double quote, the
\* asterisk, the backslash and the backtick are not used by any input)
AsciiChars == " !#$%&'()+,-./0123456789:;<=>?@ABCDEFGHIJKLMNOPQRSTUVWXYZ[]^_abcdefghijklmnopqrstuvwxyz{|}~"

CharsOf(s) == {SubSeq(s, i, i) : i \in 1..Len(s)}
LowerSet == CharsOf(LowerAlpha)
UpperSet == CharsOf(UpperAlpha)
DigitSet == CharsOf(DigitChars)
LetterSet == LowerSet \cup UpperSet
WordSet == LetterSet \cup DigitSet \cup {"_"}
SpaceSet == {" ", "\t", "\n", "\r"}

\* s[i] with a 0-based index, "" outside the string
At(s, i) == IF i >= 0 /\ i < Len(s) THEN SubSeq(s, i + 1, i + 1) ELSE ""

Min2(a, b) == IF a <= b THEN a ELSE b
Max2(a, b) == IF a >= b THEN a ELSE b

\* s[a:b] for 0 <= a, with Python's clamping of the upper end
Slice(s, a, b) ==
    LET e == Min2(b, Len(s))
    IN  IF a >= e THEN "" ELSE SubSeq(s, a + 1, e)

\* s[a:]
SliceFrom(s, a) == Slice(s, a, Len(s))

IndexIn(alphabet, c) == CHOOSE i \in 1..Len(alphabet) : SubSeq(alphabet, i, i) = c

LowerCh(c) ==
    IF c \in UpperSet
    THEN LET k == IndexIn(UpperAlpha, c) IN SubSeq(LowerAlpha, k, k)
    ELSE c

UpperCh(c) ==
    IF c \in LowerSet
    THEN LET k == IndexIn(LowerAlpha, c) IN SubSeq(UpperAlpha, k, k)
    ELSE c

\* str.lower()
RECURSIVE Lower(_)
Lower(s) ==
    IF Len(s) = 0 THEN ""
    ELSE IF Len(s) = 1 THEN LowerCh(s)
    ELSE LET h == Len(s) \div 2
         IN  Lower(SubSeq(s, 1, h)) \o Lower(SubSeq(s, h + 1, Len(s)))

\* str.title(): a letter that follows a non-letter is upper-cased, a letter
\* that follows a letter is lower-cased, everything else is kept
RECURSIVE TitleFrom(_, _)
TitleFrom(s, i) ==
    IF i >= Len(s) THEN ""
    ELSE LET c == At(s, i)
             out == IF c \in LetterSet
                    THEN IF At(s, i - 1) \in LetterSet THEN LowerCh(c) ELSE UpperCh(c)
                    ELSE c
         IN  out \o TitleFrom(s, i + 1)

Title(s) == TitleFrom(s, 0)

\* str.strip()
RECURSIVE LStripPos(_, _)
LStripPos(s, i) ==
    IF i < Len(s) /\ At(s, i) \in SpaceSet THEN LStripPos(s, i + 1) ELSE i

RECURSIVE RStripPos(_, _)
RStripPos(s, j) ==
    IF j > 0 /\ At(s, j - 1) \in SpaceSet THEN RStripPos(s, j - 1) ELSE j

Strip(s) ==
    LET a == LStripPos(s, 0)
    IN  IF a >= Len(s) THEN "" ELSE Slice(s, a, RStripPos(s, Len(s)))

\* p occurs in s at the 0-based offset i
StartsAt(s, p, i) ==
    /\ i >= 0
    /\ i + Len(p) <= Len(s)
    /\ SubSeq(s, i + 1, i + Len(p)) = p

\* p in s
Contains(s, p) == \E i \in 0..(Len(s) - Len(p)) : StartsAt(s, p, i)

Occurrences(s, p) == {i \in 0..(Len(s) - Len(p)) : StartsAt(s, p, i)}

SetMin(S) == CHOOSE x \in S : \A y \in S : x <= y
SetMax(S) == CHOOSE x \in S : \A y \in S : x >= y

\* s.find(p) and s.rfind(p): -1 when p does not occur
Find(s, p) == LET O == Occurrences(s, p) IN IF O = {} THEN -1 ELSE SetMin(O)
RFind(s, p) == LET O == Occurrences(s, p) IN IF O = {} THEN -1 ELSE SetMax(O)

\* any(k in s for k in keys)
ContainsAny(s, keys) == \E k \in keys : Contains(s, k)

\* \b at offset i of s: exactly one side is a word character
Boundary(s, i) == (At(s, i - 1) \in WordSet) # (At(s, i) \in WordSet)

\* the end of the longest run of characters of class C that starts at i
RECURSIVE RunEnd(_, _, _)
RunEnd(s, i, C) == IF i < Len(s) /\ At(s, i) \in C THEN RunEnd(s, i + 1, C) ELSE i

\* a pattern p matched at offset i with re.IGNORECASE (p is lower case)
StartsAtI(s, p, i) ==
    /\ i >= 0
    /\ i + Len(p) <= Len(s)
    /\ Lower(SubSeq(s, i + 1, i + Len(p))) = p

---------------------------------------------------------------------------
(* Numbers and ordering *)

\* int(digits) for a non-empty string of digits
RECURSIVE IntOfPrefix(_, _)
IntOfPrefix(d, n) ==
    IF n = 0 THEN 0
    ELSE 10 * IntOfPrefix(d, n - 1) + (IndexIn(DigitChars, At(d, n - 1)) - 1)

IntOf(d) == IntOfPrefix(d, Len(d))

\* str(n) for n >= 0
RECURSIVE StrOf(_)
StrOf(n) ==
    IF n < 10 THEN SubSeq(DigitChars, n + 1, n + 1)
    ELSE StrOf(n \div 10) \o SubSeq(DigitChars, (n % 10) + 1, (n % 10) + 1)

Ord(c) == IndexIn(AsciiChars, c)

\* a < b for Python strings (code point order)
RECURSIVE StrLessFrom(_, _, _)
StrLessFrom(a, b, i) ==
    IF i >= Len(b) THEN FALSE
    ELSE IF i >= Len(a) THEN TRUE
    ELSE IF At(a, i) = At(b, i) THEN StrLessFrom(a, b, i + 1)
    ELSE Ord(At(a, i)) < Ord(At(b, i))

StrLess(a, b) == StrLessFrom(a, b, 0)

\* sorted(S) for a set of strings
RECURSIVE SortedStrings(_)
SortedStrings(S) ==
    IF S = {} THEN <<>>
    ELSE LET m == CHOOSE x \in S : \A y \in S \ {x} : StrLess(x, y)
         IN  <<m>> \o SortedStrings(S \ {m})

\* sep.join(seq)
RECURSIVE Join(_, _)
Join(seq, sep) ==
    IF Len(seq) = 0 THEN ""
    ELSE IF Len(seq) = 1 THEN seq[1]
    ELSE seq[1] \o sep \o Join(Tail(seq), sep)

\* s.split(sep)
RECURSIVE SplitOn(_, _)
SplitOn(s, sep) ==
    LET Cut(d) ==
            IF d = -1 THEN <<s>>
            ELSE <<Slice(s, 0, d)>> \o SplitOn(SliceFrom(s, d + Len(sep)), sep)
    IN  Cut(Find(s, sep))

\* set(s.split()): the maximal runs of non-whitespace characters
Tokens(s) ==
    {Slice(s, i, RunEnd(s, i, CharsOf(s) \ SpaceSet)) :
        i \in {j \in 0..(Len(s) - 1) :
                 /\ At(s, j) \notin SpaceSet
                 /\ (j = 0 \/ At(s, j - 1) \in SpaceSet)}}

\* the least element of a set of offsets, -1 when it is empty
FirstOf(S) == IF S = {} THEN -1 ELSE SetMin(S)

\* the least element of a set of 1-based indices, 0 when it is empty
FirstIndex(S) == IF S = {} THEN 0 ELSE SetMin(S)

\* a if the match a exists (is not -1), else b
IfMatch(a, b) == IF a # -1 THEN a ELSE b

\* a if it is not None, else b
OrElse(a, b) == IF IsNone(a) THEN b ELSE a

---------------------------------------------------------------------------
(* The lazily loaded tagger handle: load_nlp_model *)

\* what spacy.load can do: return a model, raise OSError (model not
\* installed) or raise another exception
LoadOutcomes == {"ok", "OSError", "Exception"}

\* the value assigned to _nlp after a load attempt with outcome o
HandleAfterLoad(o) == IF o = "ok" THEN "Model" ELSE "False"

\* a return of the handle as it is (return _nlp)
LoadReturn_Raw(h) == h

\* load_nlp_model's return value: _nlp if _nlp is not False else None
LoadReturn(h) == IF h = "False" THEN "None" ELSE h

\* a guard that also retries after a failure (if not _nlp)
NeedsLoad_Retry(h) == h # "Model"

\* the guard of the load: _nlp is None
NeedsLoad(h) == h = "None"

---------------------------------------------------------------------------
(* Simple field extractors: email, phone, experience, skills *)

EmailLocalSet == LetterSet \cup DigitSet \cup {".", "_", "%", "+", "-"}
EmailDomainSet == LetterSet \cup DigitSet \cup {".", "-"}
EmailTldSet == LetterSet \cup {"|"}

\* EMAIL_PATTERN matched at offset i: the end of the match, -1 if none.
\*   \b [local]+ @ [domain]+ \. [tld]{2,} \b
\* The local part is the whole run before the "@"; the dot is the last dot
\* of the domain run that yields a match and the top-level part is the
\* longest one that ends at a word boundary (greedy, then backtracking).
EmailMatchEnd(s, i) ==
    LET r == RunEnd(s, i, EmailLocalSet)
        D == RunEnd(s, r + 1, EmailDomainSet)
        \* the ends the match can have with the literal dot at offset d
        EndsFor(d) == {e \in (d + 3)..RunEnd(s, d + 1, EmailTldSet) : Boundary(s, e)}
        Dots == {d \in (r + 2)..(D - 1) : At(s, d) = "." /\ EndsFor(d) # {}}
    IN  IF Boundary(s, i) /\ r > i /\ At(s, r) = "@" /\ Dots # {}
        THEN SetMax(EndsFor(SetMax(Dots)))
        ELSE -1

\* validate_email: EMAIL_PATTERN.match(email)
validate_email(email) == EmailMatchEnd(email, 0) # -1

\* extract_email: the first of EMAIL_PATTERN.findall that validates
RECURSIVE EmailFrom(_, _)
EmailFrom(s, pos) ==
    LET Checked(email, e) ==
            IF validate_email(email) THEN Some(Strip(Lower(email))) ELSE EmailFrom(s, e)
        Matched(i, e) == Checked(Slice(s, i, e), e)
        Found(i) == IF i = -1 THEN None ELSE Matched(i, EmailMatchEnd(s, i))
    IN  Found(FirstOf({j \in pos..(Len(s) - 1) :
                         At(s, j) \in EmailLocalSet /\ EmailMatchEnd(s, j) # -1}))

extract_email(transcript) == EmailFrom(transcript, 0)

PhoneSepSet == {"-", "."} \cup SpaceSet

DigitsAt(s, i, n) == \A k \in 0..(n - 1) : At(s, i + k) \in DigitSet

Opt(s, i, C) == IF At(s, i) \in C THEN i + 1 ELSE i

\* \(?\d{3}\)?[-.\s]?\d{3}[-.\s]?\d{4} matched at offset j: the end, or -1
PhoneRestEnd(s, j) ==
    LET a == Opt(s, j, {"("})
        b == Opt(s, Opt(s, a + 3, {")"}), PhoneSepSet)
        c == Opt(s, b + 3, PhoneSepSet)
    IN  IF DigitsAt(s, a, 3) /\ DigitsAt(s, b, 3) /\ DigitsAt(s, c, 4)
        THEN c + 4
        ELSE -1

\* (\+?\d{1,3}[-.\s]?)? with n digits, then the rest: the end, or -1
PhonePrefixedEnd(s, i, n) ==
    LET p == Opt(s, i, {"+"})
    IN  IF DigitsAt(s, p, n) THEN PhoneRestEnd(s, Opt(s, p + n, PhoneSepSet)) ELSE -1

\* PHONE_PATTERN matched at offset i: the optional prefix group is tried
\* with 3, 2 and 1 digits (greedy), then the match without the group
PhoneMatchEnd(s, i) ==
    IfMatch(PhonePrefixedEnd(s, i, 3),
    IfMatch(PhonePrefixedEnd(s, i, 2),
    IfMatch(PhonePrefixedEnd(s, i, 1),
            PhoneRestEnd(s, i))))

\* the number of characters re.sub(r'[^\d+]', '', phone) keeps
RECURSIVE CountIn(_, _, _)
CountIn(s, i, C) ==
    IF i >= Len(s) THEN 0
    ELSE (IF At(s, i) \in C THEN 1 ELSE 0) + CountIn(s, i + 1, C)

PhoneMinDigits == 10
PhoneMaxDigits == 15

\* validate_phone with the lower bound raised by one
validate_phone_MinEleven(phone) ==
    LET n == CountIn(phone, 0, DigitSet \cup {"+"})
    IN  PhoneMinDigits + 1 <= n /\ n <= PhoneMaxDigits

validate_phone(phone) ==
    LET n == CountIn(phone, 0, DigitSet \cup {"+"})
    IN  PhoneMinDigits <= n /\ n <= PhoneMaxDigits

\* PHONE_PATTERN.search(transcript): the offset of the leftmost match
PhoneSearch(s) ==
    FirstOf({j \in 0..(Len(s) - 1) :
               At(s, j) \in DigitSet \cup {"+", "("} /\ PhoneMatchEnd(s, j) # -1})

extract_phone(transcript) ==
    LET Checked(phone) == IF validate_phone(phone) THEN Some(phone) ELSE None
        Found(i) ==
            IF i = -1 THEN None
            ELSE Checked(Strip(Slice(transcript, i, PhoneMatchEnd(transcript, i))))
    IN  Found(PhoneSearch(transcript))


\* (?:years?|yrs?) matched at offset i, ignoring case: the end, or -1
YearUnitEnd(s, i) ==
    IF StartsAtI(s, "year", i) THEN Opt(s, i + 4, {"s", "S"})
    ELSE IF StartsAtI(s, "yr", i) THEN Opt(s, i + 2, {"s", "S"})
    ELSE -1

\* (\d+)\s*(?:years?|yrs?)\s* matched at offset i: the offset after it, or -1
DurationEnd(s, i) ==
    LET After(u) == IF At(s, i) \in DigitSet /\ u # -1 THEN RunEnd(s, u, SpaceSet) ELSE -1
    IN  After(YearUnitEnd(s, RunEnd(s, RunEnd(s, i, DigitSet), SpaceSet)))

\* The three EXPERIENCE_PATTERNS matched at offset i (k = 1, 2, 3).
ExperienceMatches(s, k, i) ==
    CASE k = 1 ->
           \* (\d+)\s*(?:years?|yrs?)\s*(?:of\s*)?experience
           LET Rest(e) ==
                   /\ e # -1
                   /\ StartsAtI(s, "experience",
                                IF StartsAtI(s, "of", e) THEN RunEnd(s, e + 2, SpaceSet) ELSE e)
           IN  Rest(DurationEnd(s, i))
      [] k = 2 ->
           \* experience\s*(?:of\s*)?(\d+)\s*(?:years?|yrs?)
           LET Rest(a) ==
                   DurationEnd(s, IF StartsAtI(s, "of", a)
                                  THEN RunEnd(s, a + 2, SpaceSet) ELSE a) # -1
           IN  StartsAtI(s, "experience", i) /\ Rest(RunEnd(s, i + 10, SpaceSet))
      [] OTHER ->
           \* (\d+)\s*(?:years?|yrs?)\s*(?:in|working)
           LET Rest(e) == e # -1 /\ (StartsAtI(s, "in", e) \/ StartsAtI(s, "working", e))
           IN  Rest(DurationEnd(s, i))

\* group(1) of pattern k matched at offset i
ExperienceGroup(s, k, i) ==
    LET Digits(d) == Slice(s, d, RunEnd(s, d, DigitSet))
        SkipOf(a) == IF StartsAtI(s, "of", a) THEN RunEnd(s, a + 2, SpaceSet) ELSE a
    IN  Digits(IF k = 2 THEN SkipOf(RunEnd(s, i + 10, SpaceSet)) ELSE i)

\* pattern.search(transcript): the offset of the leftmost match, or -1
ExperienceSearch(s, k) ==
    FirstOf({i \in 0..(Len(s) - 1) :
               At(s, i) \in DigitSet \cup {"e", "E"} /\ ExperienceMatches(s, k, i)})

MaxExperienceYears == 50

\* extract_experience: the patterns in order; a pattern whose leftmost match
\* is out of range is given up and the next pattern is tried
RECURSIVE ExperienceFrom(_, _)
ExperienceFrom(s, k) ==
    LET Checked(years) ==
            IF 0 < years /\ years <= MaxExperienceYears
            THEN Some(StrOf(years) \o " years")
            ELSE ExperienceFrom(s, k + 1)
        Found(i) ==
            IF i = -1 THEN ExperienceFrom(s, k + 1)
            ELSE Checked(IntOf(ExperienceGroup(s, k, i)))
    IN  IF k > 3 THEN None ELSE Found(ExperienceSearch(s, k))

extract_experience(transcript) == ExperienceFrom(transcript, 1)

SKILLS_KEYWORDS ==
    {"python", "java", "javascript", "react", "angular", "vue", "node", "sql", "mongodb",
     "postgresql", "mysql", "aws", "azure", "docker", "kubernetes", "git", "linux",
     "html", "css", "typescript", "c++", "c#", ".net", "spring", "django", "flask",
     "fastapi", "machine learning", "ai", "data science", "tensorflow", "pytorch",
     "pandas", "numpy", "redis", "elasticsearch", "kafka", "rabbitmq", "jenkins",
     "terraform", "ansible", "prometheus", "grafana", "splunk", "tableau", "powerbi"}

\* extract_skills with every entry looked for as a substring
extract_skills_Substring(transcript) ==
    LET transcript_lower == Lower(transcript)
        found == {skill \in SKILLS_KEYWORDS : Contains(transcript_lower, skill)}
        found_skills == {Title(skill) : skill \in found}
        unique_skills == SortedStrings(found_skills)
    IN  IF Len(unique_skills) > 0 THEN Some(Join(unique_skills, ", ")) ELSE None

\* extract_skills
extract_skills(transcript) ==
    LET transcript_lower == Lower(transcript)
        found == SKILLS_KEYWORDS \cap Tokens(transcript_lower)
        multi == {skill \in SKILLS_KEYWORDS :
                    Contains(skill, " ") /\ Contains(transcript_lower, skill)}
        found_skills == {Title(skill) : skill \in multi \cup found}
        unique_skills == SortedStrings(found_skills)
    IN  IF Len(unique_skills) > 0 THEN Some(Join(unique_skills, ", ")) ELSE None

---------------------------------------------------------------------------
(* The entity annotation produced by the optional tagger *)

\* a spaCy Doc: the analysed text, its sentences (sent.text) and its
\* entities (ent.text, ent.label_)
MkDoc(text, sents, ents) ==
    [present |-> TRUE, text |-> text, sents |-> sents, ents |-> ents]

\* doc = None
NoDoc == [present |-> FALSE, text |-> "", sents |-> <<>>, ents |-> <<>>]

\* [ent.text.strip() for ent in doc.ents if ent.label_ == label]
RECURSIVE EntTextsFrom(_, _, _)
EntTextsFrom(ents, label, k) ==
    IF k > Len(ents) THEN <<>>
    ELSE (IF ents[k].label = label THEN <<Strip(ents[k].text)>> ELSE <<>>)
         \o EntTextsFrom(ents, label, k + 1)

EntTexts(doc, label) == EntTextsFrom(doc.ents, label, 1)

\* the offsets at which a maximal run of word characters starts
WordStarts(s) ==
    {i \in 0..(Len(s) - 1) : At(s, i) \in WordSet /\ At(s, i - 1) \notin WordSet}

\* the maximal run of word characters that starts at i
WordAt(s, i) == Slice(s, i, RunEnd(s, i, WordSet))

---------------------------------------------------------------------------
(* Entity-assisted extractors: location, graduation year *)

CITIES ==
    {"chennai", "mumbai", "delhi", "bangalore", "hyderabad", "pune", "kolkata",
     "ahmedabad", "jaipur", "surat", "lucknow", "kanpur", "nagpur", "indore", "thane",
     "bhopal", "visakhapatnam", "patna", "vadodara", "ghaziabad", "ludhiana", "agra",
     "nashik", "faridabad", "meerut", "rajkot", "varanasi", "srinagar", "amritsar",
     "jodhpur", "raipur", "allahabad", "coimbatore", "jabalpur", "gwalior",
     "vijayawada", "madurai", "kota", "guwahati", "chandigarh", "solapur", "hubli",
     "bareilly", "moradabad", "gurgaon", "aligarh", "jalandhar", "tiruchirappalli",
     "bhubaneswar", "salem", "warangal", "thiruvananthapuram", "bhiwandi",
     "saharanpur", "gorakhpur", "guntur", "bikaner", "amravati", "noida", "bhavnagar",
     "dehradun", "kolhapur", "ajmer", "gulbarga", "jamnagar", "udaipur", "maheshtala",
     "tirunelveli", "davanagere", "kozhikode", "akola", "kurnool", "rajahmundry",
     "ballari", "agartala", "bhagalpur", "latur", "dhule", "korba", "bhimavaram",
     "panvel", "bhatpara", "machilipatnam", "raichur", "puducherry", "pali", "tumkur",
     "bharatpur", "ichalkaranji", "parbhani", "hapur", "sirsa", "baripada", "budaun",
     "jagdalpur", "motihari", "rourkela", "baghpat", "adoni", "ujjain", "sangli",
     "lahar", "ratlam", "dharmavaram", "kashipur", "sujangarh", "masaurhi", "wadi"}

EXCLUDED_LOCATION_TERMS ==
    {"python", "java", "javascript", "react", "angular", "vue", "node", "sql", "mongodb",
     "postgresql", "mysql", "aws", "azure", "docker", "kubernetes", "git", "linux",
     "html", "css", "typescript", "c++", "c#", ".net", "spring", "django", "flask",
     "fastapi", "tensorflow", "pytorch", "pandas", "numpy", "machine learning", "ai",
     "data science", "api", "rest", "graphql", "json", "xml", "http", "https",
     "india", "south india", "north india", "east india", "west india", "usa", "uk",
     "united states", "us", "programming", "code", "software", "developer"}

\* CITY_PATTERN.search(transcript): \b(city|...)\b with cities made of
\* letters only matches exactly a maximal run of word characters that is a
\* city name; the leftmost such run is the match.  -1 when there is none.
CitySearch(s) == FirstOf({i \in WordStarts(s) : Lower(WordAt(s, i)) \in CITIES})

\* ValidLocation without the excluded-term test
ValidLocation_NoExclusion(loc) ==
    /\ Len(loc) > 2
    /\ \A i \in 0..(Len(loc) - 1) : At(loc, i) \notin DigitSet

\* a GPE span that may be returned as a location
ValidLocation(loc) ==
    /\ Lower(loc) \notin EXCLUDED_LOCATION_TERMS
    /\ Len(loc) > 2
    /\ \A i \in 0..(Len(loc) - 1) : At(loc, i) \notin DigitSet

\* max(seq, key=len): the first element of greatest length
FirstLongest(seq) ==
    seq[CHOOSE k \in 1..Len(seq) :
            /\ \A j \in 1..Len(seq) : Len(seq[j]) <= Len(seq[k])
            /\ \A j \in 1..(k - 1) : Len(seq[j]) < Len(seq[k])]

extract_location(transcript, doc) ==
    LET i == CitySearch(transcript)
        valid_locations == SelectSeq(EntTexts(doc, "GPE"), ValidLocation)
    IN  IF i # -1 THEN Some(Title(WordAt(transcript, i)))
        ELSE IF doc.present /\ Len(valid_locations) > 0
             THEN Some(FirstLongest(valid_locations))
             ELSE None

GRADUATION_KEYWORDS ==
    {"graduate", "graduation", "completed", "finished", "degree", "graduated",
     "pass out", "passout", "studied"}

MinYear == 1950
MaxYear == 2030

\* validate_year that lets every year of the recent-year pattern through
validate_year_Through2039(year) == MinYear <= year /\ year <= 2039

validate_year(year) == MinYear <= year /\ year <= MaxYear

\* YEAR_PATTERN \b(19\d{2}|20\d{2})\b and RECENT_YEAR_PATTERN \b(20[0-3]\d)\b
\* match exactly the maximal runs of word characters of that form
IsYearWord(w) ==
    /\ Len(w) = 4
    /\ DigitsAt(w, 0, 4)
    /\ Slice(w, 0, 2) \in {"19", "20"}

IsRecentYearWord(w) ==
    /\ Len(w) = 4
    /\ DigitsAt(w, 0, 4)
    /\ Slice(w, 0, 2) = "20"
    /\ At(w, 2) \in {"0", "1", "2", "3"}

\* YEAR_PATTERN.search(text): the offset of the leftmost match, or -1
YearSearch(s) == FirstOf({i \in WordStarts(s) : IsYearWord(WordAt(s, i))})

\* the year found in the first sentence, from sentence k on, that has a
\* graduation keyword and whose first year is valid
RECURSIVE ContextYearFrom(_, _)
ContextYearFrom(sents, k) ==
    IF k > Len(sents) THEN None
    ELSE LET text == sents[k]
             i == YearSearch(text)
         IN  IF /\ ContainsAny(Lower(text), GRADUATION_KEYWORDS)
                /\ i # -1
                /\ validate_year(IntOf(WordAt(text, i)))
             THEN Some(IntOf(WordAt(text, i)))
             ELSE ContextYearFrom(sents, k + 1)

\* extract_graduation_year with the earliest fallback year
extract_graduation_year_Earliest(transcript, doc) ==
    LET context == IF doc.present THEN ContextYearFrom(doc.sents, 1) ELSE None
        recent_years == {IntOf(WordAt(transcript, i)) :
                           i \in {j \in WordStarts(transcript) :
                                    IsRecentYearWord(WordAt(transcript, j))}}
        years == {y \in recent_years : validate_year(y)}
    IN  OrElse(context, IF years # {} THEN Some(SetMin(years)) ELSE None)

extract_graduation_year(transcript, doc) ==
    LET context == IF doc.present THEN ContextYearFrom(doc.sents, 1) ELSE None
        recent_years == {IntOf(WordAt(transcript, i)) :
                           i \in {j \in WordStarts(transcript) :
                                    IsRecentYearWord(WordAt(transcript, j))}}
        years == {y \in recent_years : validate_year(y)}
    IN  OrElse(context, IF years # {} THEN Some(SetMax(years)) ELSE None)

---------------------------------------------------------------------------
(* Entity-assisted extractors: college, name *)

\* the lead-ins removed from a college name (prefixes_to_remove), lower case;
\* each is the regular expression \b<lead-in>\s+ with re.IGNORECASE
PREFIXES_TO_REMOVE ==
    <<"i graduated from", "graduated from", "i studied at", "studied at",
      "i am from", "from", "at">>

\* \b<lit>\s+ matched at offset i: the end of the match, or -1
LeadInEnd(s, lit, i) ==
    IF /\ Boundary(s, i)
       /\ StartsAtI(s, lit, i)
       /\ At(s, i + Len(lit)) \in SpaceSet
    THEN RunEnd(s, i + Len(lit), SpaceSet)
    ELSE -1

\* re.sub(pattern, '', s, flags=re.IGNORECASE) from offset i on
RECURSIVE RemoveLeadIn(_, _, _)
RemoveLeadIn(s, lit, i) ==
    IF i >= Len(s) THEN ""
    ELSE IF LeadInEnd(s, lit, i) # -1 THEN RemoveLeadIn(s, lit, LeadInEnd(s, lit, i))
    ELSE At(s, i) \o RemoveLeadIn(s, lit, i + 1)

\* for prefix_pattern in prefixes_to_remove: s = re.sub(...).strip()
RECURSIVE RemoveLeadIns(_, _)
RemoveLeadIns(s, k) ==
    IF k > Len(PREFIXES_TO_REMOVE) THEN s
    ELSE RemoveLeadIns(Strip(RemoveLeadIn(s, PREFIXES_TO_REMOVE[k], 0)), k + 1)

COLLEGE_SUFFIXES == {"University", "College", "Institute", "School", "Academy"}
COLLEGE_KEYWORDS == {"university", "college", "institute", "school", "academy"}

MinCollegeLen == 5
MaxCollegeLen == 100

\* \b([A-Z][a-zA-Z\s]+(?:University|College|Institute|School|Academy))\b
\* matched at offset i (case-sensitive): the end of the match, or -1.  The
\* greedy class takes the whole run of letters and whitespace and gives
\* characters back until a suffix that ends at a word boundary follows, so
\* the suffix is the last one in the run.
CollegeMatchEnd(s, i) ==
    LET R == RunEnd(s, i + 1, LetterSet \cup SpaceSet)
        Good == {e \in (i + 2)..R :
                   /\ Boundary(s, e)
                   /\ \E w \in COLLEGE_SUFFIXES :
                        e - Len(w) >= i + 2 /\ StartsAt(s, w, e - Len(w))}
    IN  IF Boundary(s, i) /\ At(s, i) \in UpperSet /\ Good # {}
        THEN SetMax(Good)
        ELSE -1

CollegeSearch(s) ==
    FirstOf({i \in 0..(Len(s) - 1) : At(s, i) \in UpperSet /\ CollegeMatchEnd(s, i) # -1})

\* the first ORG span, from span k on, that names a college
RECURSIVE CollegeFromOrgs(_, _)
CollegeFromOrgs(orgs, k) ==
    IF k > Len(orgs) THEN None
    ELSE LET org == orgs[k]
             org_lower == Lower(org)
         IN  IF /\ ContainsAny(org_lower, COLLEGE_KEYWORDS)
                /\ MinCollegeLen <= Len(org) /\ Len(org) <= MaxCollegeLen
                /\ org_lower \notin {"university", "college", "school"}
             THEN Some(RemoveLeadIns(org, 1))
             ELSE CollegeFromOrgs(orgs, k + 1)

extract_college(transcript, doc) ==
    LET Checked(college) ==
            IF MinCollegeLen <= Len(college) /\ Len(college) <= MaxCollegeLen
            THEN Some(college)
            ELSE None
        Found(i) ==
            IF i = -1 THEN None
            ELSE Checked(RemoveLeadIns(
                             Strip(Slice(transcript, i, CollegeMatchEnd(transcript, i))), 1))
    IN  IF ~doc.present
        THEN Found(CollegeSearch(transcript))
        ELSE CollegeFromOrgs(EntTexts(doc, "ORG"), 1)

NAME_INTROS == <<"my name is", "i am", "i'm", "this is">>
NAME_PRONOUNS == {"i", "me", "my", "you", "he", "she", "we", "they"}

MinNameLen == 2
MaxNameLen == 50

\* [A-Z][a-z]+ with re.IGNORECASE matched at offset j: a letter followed by
\* the whole run of letters after it; the end of the match, or -1
NameWordEnd(s, j) ==
    LET e == RunEnd(s, j, LetterSet)
    IN  IF e >= j + 2 THEN e ELSE -1

\* \s+[A-Z][a-z]+ matched at offset e: the end of the match, or -1
NextNameWordEnd(s, e) ==
    LET w == RunEnd(s, e, SpaceSet)
    IN  IF w > e THEN NameWordEnd(s, w) ELSE -1

\* (?:\s+[A-Z][a-z]+)* matched greedily at offset e
RECURSIVE NameWordsEnd(_, _)
NameWordsEnd(s, e) ==
    LET More(n) == IF n = -1 THEN e ELSE NameWordsEnd(s, n)
    IN  More(NextNameWordEnd(s, e))

\* the offset at which group 1 of the first name pattern starts when the
\* pattern matches at offset i, -1 when it does not
IntroNameStart(s, i) ==
    LET Lits == {k \in 1..Len(NAME_INTROS) : StartsAtI(s, NAME_INTROS[k], i)}
    IN  IF Lits = {} THEN -1
        ELSE LET a == i + Len(NAME_INTROS[SetMin(Lits)])
                 j == RunEnd(s, a, SpaceSet)
             IN  IF j > a /\ NameWordEnd(s, j) # -1 THEN j ELSE -1

IntroSearch(s) ==
    FirstOf({i \in 0..(Len(s) - 1) : IntroNameStart(s, i) # -1})

\* (?:\s+here|\s+speaking) matched at offset e, ignoring case
HereFollows(s, e) ==
    LET w == RunEnd(s, e, SpaceSet)
    IN  w > e /\ (StartsAtI(s, "here", w) \/ StartsAtI(s, "speaking", w))

\* the end of group 1 of the second name pattern: the longest sequence of
\* words, starting with the word that ends at e, that is followed by
\* "here" or "speaking"; -1 when there is none
RECURSIVE HereNameEnd(_, _)
HereNameEnd(s, e) ==
    LET Longer(n) == IF n = -1 THEN -1 ELSE HereNameEnd(s, n)
    IN  IfMatch(Longer(NextNameWordEnd(s, e)), IF HereFollows(s, e) THEN e ELSE -1)

\* ^ with re.MULTILINE
LineStart(s, i) == i = 0 \/ At(s, i - 1) = "\n"

HereSearch(s) ==
    FirstOf({i \in 0..(Len(s) - 1) :
               /\ LineStart(s, i)
               /\ NameWordEnd(s, i) # -1
               /\ HereNameEnd(s, NameWordEnd(s, i)) # -1})

NameLenOk(name) == MinNameLen <= Len(name) /\ Len(name) <= MaxNameLen

\* the first PERSON span, from span k on, that is acceptable as a name
RECURSIVE NameFromPersons(_, _)
NameFromPersons(persons, k) ==
    IF k > Len(persons) THEN None
    ELSE LET person == persons[k]
         IN  IF /\ NameLenOk(person)
                /\ Lower(person) \notin NAME_PRONOUNS
                /\ ~(Len(person) > 0 /\ DigitsAt(person, 0, Len(person)))
             THEN Some(Title(person))
             ELSE NameFromPersons(persons, k + 1)

extract_name(transcript, doc) ==
    LET \* the name of a pattern that matched, if its length is acceptable
        Named(matched, name, otherwise) ==
            IF matched /\ NameLenOk(name) THEN Some(Title(name)) ELSE otherwise
        IntroName(j) ==
            Strip(Slice(transcript, j,
                        NameWordsEnd(transcript, NameWordEnd(transcript, j))))
        HereName(h) ==
            Strip(Slice(transcript, h,
                        HereNameEnd(transcript, NameWordEnd(transcript, h))))
        ByHere(h) == Named(h # -1, HereName(h), None)
        ByIntro(i) ==
            Named(i # -1, IntroName(IntroNameStart(transcript, i)),
                  ByHere(HereSearch(transcript)))
    IN  IF ~doc.present
        THEN ByIntro(IntroSearch(transcript))
        ELSE NameFromPersons(EntTexts(doc, "PERSON"), 1)

---------------------------------------------------------------------------
(* Degree resolution: lexicons *)

\* SPECIALIZATIONS, in the order of the source list
SPECIALIZATIONS ==
    <<"computer science engineering", "computer science and engineering", "cse",
      "computer science", "computer engineering",
      "information technology", "information technology engineering",
      "mechanical engineering", "civil engineering", "electrical engineering",
      "electronics engineering",
      "chemical engineering", "aerospace engineering", "biotechnology",
      "biomedical engineering",
      "data science", "artificial intelligence", "machine learning",
      "software engineering",
      "business administration", "management", "finance", "marketing", "accounting",
      "mathematics", "physics", "chemistry", "biology", "statistics", "economics",
      "it">>

DEGREE_KEYWORDS ==
    {"degree", "graduated", "completed", "studied", "education", "qualification",
     "bachelor", "master"}

\* sorted(seq, key=len, reverse=True): a stable sort, so entries of equal
\* length keep the order of seq
RECURSIVE SortedByLenDesc(_)
SortedByLenDesc(seq) ==
    IF Len(seq) = 0 THEN <<>>
    ELSE LET k == CHOOSE k \in 1..Len(seq) :
                     /\ \A j \in 1..Len(seq) : Len(seq[j]) <= Len(seq[k])
                     /\ \A j \in 1..(k - 1) : Len(seq[j]) < Len(seq[k])
         IN  <<seq[k]>> \o SortedByLenDesc(SubSeq(seq, 1, k - 1) \o SubSeq(seq, k + 1, Len(seq)))

sorted_specs_Unsorted == SPECIALIZATIONS

sorted_specs == SortedByLenDesc(SPECIALIZATIONS)

\* the first element of seq that satisfies Test(_), as <<element>>, or <<>>
FirstIn(seq, Test(_)) ==
    LET K == {k \in 1..Len(seq) : Test(seq[k])}
    IN  IF K = {} THEN <<>> ELSE <<seq[SetMin(K)]>>

\* the first entry of SPECIALIZATIONS (the order of the regular expression's
\* alternation) that matches at offset j ignoring case, or <<>>
SpecAt(s, j) == LET Hit(spec) == StartsAtI(s, spec, j) IN FirstIn(SPECIALIZATIONS, Hit)

---------------------------------------------------------------------------
(* Degree resolution, rule 1: "degree in <phrase>" *)

DEGREE_IN_CLOSERS == {"engineering", "science", "technology", "administration"}

master_indicators ==
    <<"master", "m.tech", "mtech", "m.e", "m e", "m.e.", "postgraduate", "pg", "masters">>
bachelor_indicators ==
    <<"bachelor", "b.tech", "btech", "b.e", "b e", "b.e.", "undergraduate", "ug", "bachelors">>

BE_FORMS == {"b.e", "b e", "b.e."}
BTECH_FORMS == {"b.tech", "btech", "b.tech."}
BACHELOR_FORMS == {"bachelor", "bachelors"}

\* the length of the window searched after the match position
AfterWindow == 200

\* \bdegree\s+in\s+ matched at offset i: the offset of the first character
\* after the whitespace that follows "in" and the number of whitespace
\* characters before it, as <<offset, count>>; <<>> when there is no match
DegreeInHead(s, i) ==
    LET w == RunEnd(s, i + 6, SpaceSet)
        b == RunEnd(s, w + 2, SpaceSet)
    IN  IF /\ Boundary(s, i)
           /\ StartsAtI(s, "degree", i)
           /\ w > i + 6
           /\ StartsAtI(s, "in", w)
           /\ b > w + 2
        THEN <<b, b - (w + 2)>>
        ELSE <<>>

\* the end of ([a-z\s]+(?:engineering|science|technology|administration))
\* for the head that ends at offset b after n whitespace characters: the
\* class takes the whole run of letters and whitespace and gives characters
\* back until a closing word follows, so the closing word is the last one in
\* the run.  The class needs one character: a closing word right at b is
\* reached only by giving one of n >= 2 whitespace characters to the class.
DegreeInEnd(s, b, n) ==
    LET R == RunEnd(s, b, LetterSet \cup SpaceSet)
        Starts == {ks \in b..(R - 1) :
                     /\ \E w \in DEGREE_IN_CLOSERS : StartsAtI(s, w, ks)
                     /\ (ks > b \/ n >= 2)}
    IN  IF Starts = {} THEN -1
        ELSE LET ks == SetMax(Starts)
             IN  ks + Len(CHOOSE w \in DEGREE_IN_CLOSERS : StartsAtI(s, w, ks))

DegreeInMatches(s, i) ==
    LET h == DegreeInHead(s, i)
    IN  h # <<>> /\ DegreeInEnd(s, h[1], h[2]) # -1

\* degree_in_pattern.search(transcript): the offset of the match, or -1
DegreeInSearch(s) ==
    FirstOf({i \in 0..(Len(s) - 1) : At(s, i) \in {"d", "D"} /\ DegreeInMatches(s, i)})

\* degree_in_match.group(1).strip().lower()
SpecMentioned(s, i) ==
    LET h == DegreeInHead(s, i)
    IN  Lower(Strip(Slice(s, h[1], DegreeInEnd(s, h[1], h[2]))))

\* the specialization chosen for the phrase: the first of sorted_specs that
\* is part of the phrase or has the phrase as a part; <<>> if there is none
MatchedSpec(spec_mentioned) ==
    LET Hit(spec) == Contains(spec_mentioned, spec) \/ Contains(spec, spec_mentioned)
    IN  FirstIn(sorted_specs, Hit)

\* any(ind in context_before or ind in context_after for ind in forms)
InContext(before, after, forms) ==
    \E ind \in forms : Contains(before, ind) \/ Contains(after, ind)

Range(seq) == {seq[k] : k \in 1..Len(seq)}

\* the sub-type checks with B.Tech tried before B.E.
BachelorResult_TechFirst(before, after, spec) ==
    IF InContext(before, after, BTECH_FORMS) THEN "B.Tech in " \o Title(spec)
    ELSE IF InContext(before, after, BE_FORMS) THEN "B.E. in " \o Title(spec)
    ELSE IF InContext(before, after, BACHELOR_FORMS) THEN "Bachelor's in " \o Title(spec)
    ELSE Title(spec)

\* the bachelor-level result: the sub-type checks in their order
BachelorResult(before, after, spec) ==
    IF InContext(before, after, BE_FORMS) THEN "B.E. in " \o Title(spec)
    ELSE IF InContext(before, after, BTECH_FORMS) THEN "B.Tech in " \o Title(spec)
    ELSE IF InContext(before, after, BACHELOR_FORMS) THEN "Bachelor's in " \o Title(spec)
    ELSE Title(spec)

\* the positions collected for a family of indicators: the last occurrence
\* of each indicator before the match position and the first one after it
IndicatorPositions(before, after, degree_pos, indicators) ==
    {RFind(before, ind) : ind \in {x \in Range(indicators) : Contains(before, x)}}
    \cup {degree_pos + Find(after, ind) :
            ind \in {x \in Range(indicators) : Contains(after, x)}}

Abs(x) == IF x < 0 THEN -x ELSE x

\* min([abs(p - degree_pos) for p in positions if p >= 0])
Closest(positions, degree_pos) ==
    SetMin({Abs(p - degree_pos) : p \in {x \in positions : x >= 0}})

\* a comparison that gives a tie to the master family (<=)
MasterIsCloser_OrEqual(closest_master, closest_bachelor) ==
    closest_master <= closest_bachelor

\* if closest_master < closest_bachelor
MasterIsCloser(closest_master, closest_bachelor) == closest_master < closest_bachelor

\* the result of rule 1 for a match at degree_pos and the matched spec
DegreeInResult(transcript, degree_pos, spec) ==
    LET full == Lower(transcript)
        before == Slice(full, 0, degree_pos)
        after == Slice(full, degree_pos, degree_pos + AfterWindow)
        has_master == InContext(before, after, Range(master_indicators))
        has_bachelor == InContext(before, after, Range(bachelor_indicators))
        closest_master ==
            Closest(IndicatorPositions(before, after, degree_pos, master_indicators),
                    degree_pos)
        closest_bachelor ==
            Closest(IndicatorPositions(before, after, degree_pos, bachelor_indicators),
                    degree_pos)
    IN  IF has_master /\ ~has_bachelor THEN "M.Tech in " \o Title(spec)
        ELSE IF has_bachelor /\ ~has_master THEN BachelorResult(before, after, spec)
        ELSE IF has_master /\ has_bachelor
             THEN IF MasterIsCloser(closest_master, closest_bachelor)
                  THEN "M.Tech in " \o Title(spec)
                  ELSE BachelorResult(before, after, spec)
        ELSE Title(spec)

\* rule 1: <<result>>, or <<>> when the rule does not apply
DegreeRule1(transcript) ==
    LET Resolved(i, m) ==
            IF i # -1 /\ m # <<>>
            THEN Some(DegreeInResult(transcript, i, m[1]))
            ELSE None
        Found(i) == Resolved(i, MatchedSpec(SpecMentioned(transcript, i)))
    IN  Found(DegreeInSearch(transcript))

---------------------------------------------------------------------------
(* Degree resolution, rule 2: full degree names *)

BACHELOR_FIELDS == <<"technology", "engineering", "science", "arts", "commerce">>
MASTER_FIELDS ==
    <<"technology", "engineering", "science", "arts", "commerce", "business administration">>

\* a word or phrase of a pattern matched at offset i, where every blank of
\* the phrase stands for \s+: the end of the match, or -1
RECURSIVE PhraseEnd(_, _, _)
PhraseEnd(s, phrase, i) ==
    LET Rest(sp, head, w) ==
            IF ~StartsAtI(s, head, i) THEN -1
            ELSE IF sp = -1 THEN i + Len(head)
            ELSE IF w = i + Len(head) THEN -1
            ELSE PhraseEnd(s, SliceFrom(phrase, sp + 1), w)
        Headed(sp, head) == Rest(sp, head, RunEnd(s, i + Len(head), SpaceSet))
        Split(sp) == Headed(sp, IF sp = -1 THEN phrase ELSE Slice(phrase, 0, sp))
    IN  Split(Find(phrase, " "))

\* \s+(?:in\s+)?(spec) matched at offset g: the offset of the spec, or -1
\* (the optional "in" is taken whenever it is there: no spec starts with
\* "in" followed by whitespace)
SpecAfter(s, g) ==
    LET w == RunEnd(s, g, SpaceSet)
        v == RunEnd(s, w + 2, SpaceSet)
        j == IF StartsAtI(s, "in", w) /\ v > w + 2 THEN v ELSE w
    IN  IF g >= 0 /\ w > g /\ SpecAt(s, j) # <<>> THEN j ELSE -1

\* \b(<level>\s+of\s+(?:<fields>))\s+(?:in\s+)?(spec) matched at offset i:
\* the end of group 1, or -1
FullOfGroupEnd(s, level, fields, i) ==
    LET Ends == {PhraseEnd(s, level \o " of " \o f, i) : f \in Range(fields)} \ {-1}
    IN  IF Boundary(s, i) THEN FirstOf({g \in Ends : SpecAfter(s, g) # -1}) ELSE -1

\* \b(<level>\s+in\s+(spec)) matched at offset i: the offset of the spec, or -1
FullInSpecPos(s, level, i) ==
    LET AtSpec(w, b) ==
            IF StartsAtI(s, "in", w) /\ b > w + 2 /\ SpecAt(s, b) # <<>> THEN b ELSE -1
        AfterGap(a, w) ==
            IF a # -1 /\ w > a THEN AtSpec(w, RunEnd(s, w + 2, SpaceSet)) ELSE -1
        AfterLevel(a) == AfterGap(a, RunEnd(s, a, SpaceSet))
    IN  IF Boundary(s, i) THEN AfterLevel(PhraseEnd(s, level, i)) ELSE -1

\* the prefix chosen from the captured degree name (group 1, lower case)
DegreePrefix(captured_degree) ==
    LET is_bachelor == Contains(captured_degree, "bachelor")
    IN  IF Contains(captured_degree, "technology")
        THEN IF is_bachelor THEN "B.Tech" ELSE "M.Tech"
        ELSE IF Contains(captured_degree, "engineering")
        THEN IF is_bachelor THEN "B.E." ELSE "M.E."
        ELSE IF Contains(captured_degree, "science")
        THEN IF is_bachelor THEN "B.Sc" ELSE "M.Sc"
        ELSE IF Contains(captured_degree, "arts")
        THEN IF is_bachelor THEN "B.A." ELSE "M.A."
        ELSE IF Contains(captured_degree, "commerce")
        THEN IF is_bachelor THEN "B.Com" ELSE "M.Com"
        ELSE IF Contains(captured_degree, "business") THEN "MBA"
        ELSE IF is_bachelor THEN "Bachelor's" ELSE "Master's"

\* f"{degree_prefix} in {spec.title()}"
FullResult(captured_degree, spec) ==
    DegreePrefix(captured_degree) \o " in " \o Title(Strip(spec))

\* the "<level> of <field> [in] <spec>" pattern searched in the lower-cased
\* transcript: <<result>> or <<>>
FullOfRule(s, level, fields) ==
    LET Matched(i, g) == Some(FullResult(Slice(s, i, g), SpecAt(s, SpecAfter(s, g))[1]))
        Found(i) == IF i = -1 THEN None ELSE Matched(i, FullOfGroupEnd(s, level, fields, i))
    IN  Found(FirstOf({k \in 0..(Len(s) - 1) : FullOfGroupEnd(s, level, fields, k) # -1}))

\* the "<level> in <spec>" pattern: group 1 is the whole match
FullInRule(s, level) ==
    LET Matched(i, b, spec) == Some(FullResult(Slice(s, i, b + Len(spec)), spec))
        AtSpec(i, b) == Matched(i, b, SpecAt(s, b)[1])
        Found(i) == IF i = -1 THEN None ELSE AtSpec(i, FullInSpecPos(s, level, i))
    IN  Found(FirstOf({k \in 0..(Len(s) - 1) : FullInSpecPos(s, level, k) # -1}))

\* rule 2: the four full_patterns in their order
DegreeRule2(transcript) ==
    LET s == Lower(transcript)
    IN  OrElse(FullOfRule(s, "bachelor", BACHELOR_FIELDS),
        OrElse(FullOfRule(s, "master", MASTER_FIELDS),
        OrElse(FullInRule(s, "bachelor"),
               FullInRule(s, "master"))))

---------------------------------------------------------------------------
(* Degree resolution, rules 3 and 4: abbreviations (annotation needed) *)

\* the abbreviation patterns, each a sequence of alternatives <<letters>>:
\* the alternative <<"b", "tech">> stands for b\.?\s*tech\.? (it also covers
\* the alternative "btech"), <<"m", "b", "a">> for m\.?\s*b\.?\s*a\.?
ABBREV_BTECH == <<(<<"b", "tech">>)>>
ABBREV_MTECH == <<(<<"m", "tech">>), (<<"m", "e">>)>>
ABBREV_BSC == <<(<<"b", "sc">>)>>
ABBREV_MSC == <<(<<"m", "sc">>)>>
ABBREV_MBA == <<(<<"m", "b", "a">>)>>

\* abbrev_patterns: the abbreviation followed by a specialization
abbrev_patterns ==
    <<[alts |-> ABBREV_BTECH, name |-> "B.Tech"],
      [alts |-> ABBREV_MTECH, name |-> "M.Tech"],
      [alts |-> ABBREV_BSC, name |-> "B.Sc"],
      [alts |-> ABBREV_MSC, name |-> "M.Sc"]>>

\* simple_patterns: the abbreviation alone
simple_patterns ==
    <<[alts |-> ABBREV_BTECH, name |-> "B.Tech"],
      [alts |-> ABBREV_MTECH, name |-> "M.Tech"],
      [alts |-> ABBREV_BSC, name |-> "B.Sc"],
      [alts |-> ABBREV_MSC, name |-> "M.Sc"],
      [alts |-> ABBREV_MBA, name |-> "MBA"]>>

\* the parts of an alternative matched from offset i on, part k first, the
\* parts separated by \.?\s* : the offset after the last part, or -1
RECURSIVE AbbrevPartsEnd(_, _, _, _)
AbbrevPartsEnd(s, parts, k, i) ==
    IF ~StartsAtI(s, parts[k], i) THEN -1
    ELSE IF k = Len(parts) THEN i + Len(parts[k])
    ELSE AbbrevPartsEnd(s, parts, k + 1,
                        RunEnd(s, Opt(s, i + Len(parts[k]), {"."}), SpaceSet))

\* an abbreviation followed by \s+(?:in\s+)?(spec), matched at offset i:
\* the offset of the spec, or -1.  The alternatives are tried in order; the
\* final \.? is taken when the dot is there.
AbbrevSpecPos(s, alts, i) ==
    LET After(e) == IF e = -1 THEN -1 ELSE SpecAfter(s, Opt(s, e, {"."}))
        Pos(k) == After(AbbrevPartsEnd(s, alts[k], 1, i))
        FirstAlt(K) == IF Boundary(s, i) /\ K # {} THEN Pos(SetMin(K)) ELSE -1
    IN  FirstAlt({k \in 1..Len(alts) : Pos(k) # -1})

\* an abbreviation followed by \b, matched at offset i: with the final dot
\* when a word character follows it, else without it
AbbrevAloneMatches(s, alts, i) ==
    /\ Boundary(s, i)
    /\ \E k \in 1..Len(alts) :
         LET e == AbbrevPartsEnd(s, alts[k], 1, i)
         IN  /\ e # -1
             /\ \/ (At(s, e) = "." /\ Boundary(s, e + 1))
                \/ Boundary(s, e)

\* re.search of a simple pattern: the offset of the leftmost match, or -1
AbbrevAloneSearch(s, alts) ==
    FirstOf({i \in 0..(Len(s) - 1) : AbbrevAloneMatches(s, alts, i)})

\* any(keyword in sent_text for keyword in DEGREE_KEYWORDS)
IsDegreeSentence(text) == ContainsAny(Lower(text), DEGREE_KEYWORDS)

\* rule 3 in one sentence: the first abbrev pattern, from pattern p on, that
\* matches, as <<result>>; <<>> if none does
RECURSIVE AbbrevWithSpec(_, _)
AbbrevWithSpec(text, p) ==
    LET Matched(j) ==
            Some(abbrev_patterns[p].name \o " in "
                 \o Title(Strip(Slice(text, j, j + Len(SpecAt(text, j)[1])))))
        Found(i) ==
            IF i = -1 THEN AbbrevWithSpec(text, p + 1)
            ELSE Matched(AbbrevSpecPos(text, abbrev_patterns[p].alts, i))
    IN  IF p > Len(abbrev_patterns) THEN None
        ELSE Found(FirstOf({k \in 0..(Len(text) - 1) :
                              AbbrevSpecPos(text, abbrev_patterns[p].alts, k) # -1}))

\* rule 3: the first degree-context sentence, from sentence k on, in which
\* an abbreviation is followed by a specialization
RECURSIVE DegreeRule3From(_, _)
DegreeRule3From(sents, k) ==
    LET Tried(r) ==
            IF IsDegreeSentence(sents[k]) /\ ~IsNone(r)
            THEN r
            ELSE DegreeRule3From(sents, k + 1)
    IN  IF k > Len(sents) THEN None ELSE Tried(AbbrevWithSpec(sents[k], 1))

DegreeRule3(doc) == DegreeRule3From(doc.sents, 1)

\* the index of the first simple pattern that matches in the text, 0 if none
SimplePatternIn(text) ==
    FirstIndex({p \in 1..Len(simple_patterns) :
                  AbbrevAloneSearch(text, simple_patterns[p].alts) # -1})

\* the index of the first degree-context sentence that holds an
\* abbreviation, 0 if there is none
DegreeSentenceIdx(sents) ==
    FirstIndex({k \in 1..Len(sents) :
                  IsDegreeSentence(sents[k]) /\ SimplePatternIn(sents[k]) # 0})

\* the half-width of the character window around the abbreviation and of
\* the neighbourhood around a specialization found in it
ContextHalfWidth == 400
SnippetHalfWidth == 60
MinLenientSpecLen == 5

degree_context_keywords ==
    {"degree", "studied", "graduated", "completed", "in", "of", "specialization",
     "major", "field", "subject", "branch"}
skill_context_keywords ==
    {"skill", "know", "expert", "proficient", "experience with", "worked with",
     "proficient in", "good at"}
skill_indicators ==
    {"skill", "know", "expert", "proficient", "experience", "worked", "proficient in",
     "good at"}

\* the acceptance test of a specialization found near the abbreviation
AcceptSpec(has_degree_context, has_skill_context, spec) ==
    has_degree_context \/ (~has_skill_context /\ Len(spec) > MinLenientSpecLen)

\* the pattern used to locate the abbreviation in its sentence: the B.Tech
\* pattern when the name found contains "tech", else the B.Sc pattern
LocatorAlts(degree_found) ==
    IF Contains(Lower(degree_found), "tech")
    THEN simple_patterns[1].alts
    ELSE simple_patterns[3].alts

\* degree_pos: the offset of the abbreviation in the transcript, -1 if the
\* locator pattern or the sentence is not found
DegreePos(transcript, sent_text, degree_found) ==
    LET Located(m, char_start) == IF m # -1 /\ char_start # -1 THEN char_start + m ELSE -1
    IN  Located(AbbrevAloneSearch(sent_text, LocatorAlts(degree_found)),
                Find(Lower(transcript), Lower(sent_text)))

\* the specialization accepted in the character window, as <<spec>>, or <<>>
WindowSpec(transcript, degree_pos) ==
    LET context_start == Max2(0, degree_pos - ContextHalfWidth)
        context_end == Min2(Len(transcript), degree_pos + ContextHalfWidth)
        context_window == Lower(Slice(transcript, context_start, context_end))
        Accepted(spec) ==
            /\ Contains(context_window, spec)
            /\ LET spec_pos == Find(context_window, spec)
                   context_snippet ==
                       Slice(context_window,
                             Max2(0, spec_pos - SnippetHalfWidth),
                             Min2(Len(context_window),
                                  spec_pos + Len(spec) + SnippetHalfWidth))
               IN  AcceptSpec(ContainsAny(context_snippet, degree_context_keywords),
                              ContainsAny(context_snippet, skill_context_keywords),
                              spec)
    IN  FirstIn(sorted_specs, Accepted)

\* the specialization accepted in one sentence, as <<spec>>, or <<>>
SentenceSpec(text) ==
    LET sent_text == Lower(text)
        Accepted(spec) ==
            /\ Contains(sent_text, spec)
            /\ AcceptSpec(ContainsAny(sent_text, degree_context_keywords),
                          ContainsAny(sent_text, skill_indicators),
                          spec)
    IN  FirstIn(sorted_specs, Accepted)

\* the specialization accepted in the previous, the current or the next
\* sentence (search_indices, in that order), as <<spec>>, or <<>>
AdjacentSpec(sents, idx) ==
    LET search_indices == <<Max2(1, idx - 1), idx, Min2(Len(sents), idx + 1)>>
        FirstHit(K) ==
            IF K = {} THEN <<>> ELSE SentenceSpec(sents[search_indices[SetMin(K)]])
    IN  FirstHit({k \in 1..3 : SentenceSpec(sents[search_indices[k]]) # <<>>})

\* rule 4: the abbreviation found first, with a specialization from the
\* character window, else from the adjacent sentences, else alone
DegreeRule4(transcript, doc) ==
    LET Named(degree_found, in_window, adjacent) ==
            IF in_window # <<>> THEN Some(degree_found \o " in " \o Title(in_window[1]))
            ELSE IF adjacent # <<>> THEN Some(degree_found \o " in " \o Title(adjacent[1]))
            ELSE Some(degree_found)
        Located(idx, degree_found, degree_pos) ==
            Named(degree_found,
                  IF degree_pos # -1 THEN WindowSpec(transcript, degree_pos) ELSE <<>>,
                  AdjacentSpec(doc.sents, idx))
        InSentence(idx, degree_found) ==
            Located(idx, degree_found, DegreePos(transcript, doc.sents[idx], degree_found))
        Found(idx) ==
            IF idx = 0 THEN None
            ELSE InSentence(idx, simple_patterns[SimplePatternIn(doc.sents[idx])].name)
    IN  Found(DegreeSentenceIdx(doc.sents))

\* the rules with the whole transcript taken as one sentence when there is
\* no doc
extract_degree_SentenceFallback(transcript, doc) ==
    LET Rules(d) ==
            OrElse(DegreeRule1(transcript),
            OrElse(DegreeRule2(transcript),
            OrElse(DegreeRule3(d), DegreeRule4(transcript, d))))
    IN  Rules(IF doc.present THEN doc ELSE MkDoc(transcript, <<transcript>>, <<>>))

\* extract_degree: the rules in their order; rules 3 and 4 need a doc
extract_degree(transcript, doc) ==
    OrElse(DegreeRule1(transcript),
    OrElse(DegreeRule2(transcript),
           IF ~doc.present THEN None
           ELSE OrElse(DegreeRule3(doc), DegreeRule4(transcript, doc))))

---------------------------------------------------------------------------
(* Document sampler and orchestrator: extract_candidate_info *)

KEYS ==
    {"name", "email", "phone", "college", "degree", "graduation_year", "experience",
     "location", "skills"}

\* an early result that lacks a key
EmptyResult_NoSkills == [k \in KEYS \ {"skills"} |-> None]

\* the result returned for a transcript that is too short
EmptyResult == [k \in KEYS |-> None]

MinTranscriptLen == 10
LongTranscriptLen == 2000
MaxRelevantSentences == 25
EdgeSentences == 3
ShortSentenceLen == 100

\* a length test on the transcript as given (len(transcript) < 10)
TooShort_Untrimmed(transcript) ==
    transcript = "" \/ Len(transcript) < MinTranscriptLen

\* if not transcript or len(transcript.strip()) < 10
TooShort(transcript) ==
    transcript = "" \/ Len(Strip(transcript)) < MinTranscriptLen

SAMPLER_KEYWORDS ==
    {"name", "i am", "my name", "from", "location", "live", "college",
     "university", "degree", "graduated", "graduate", "studied"}

\* s.split('.')
RECURSIVE SplitDots(_)
SplitDots(s) ==
    LET d == Find(s, ".")
    IN  IF d = -1 THEN <<s>>
        ELSE <<Slice(s, 0, d)>> \o SplitDots(SliceFrom(s, d + 1))

\* [s.strip() for s in seq if s.strip()]
RECURSIVE StripAll(_)
StripAll(seq) ==
    IF Len(seq) = 0 THEN <<>>
    ELSE (IF Strip(seq[1]) = "" THEN <<>> ELSE <<Strip(seq[1])>>) \o StripAll(Tail(seq))

IsRelevant(sent) ==
    ContainsAny(Lower(sent), SAMPLER_KEYWORDS) \/ Len(sent) < ShortSentenceLen

\* seq[:n] and seq[-n:]
FirstN(seq, n) == SubSeq(seq, 1, Min2(n, Len(seq)))
LastN(seq, n) == SubSeq(seq, Max2(1, Len(seq) - n + 1), Len(seq))

\* the sample without the cap on the relevant sentences
TaggerInput_NoCap(transcript) ==
    IF Len(transcript) > LongTranscriptLen
    THEN LET sentences == StripAll(SplitDots(transcript))
             relevant_sentences == SelectSeq(sentences, IsRelevant)
         IN  IF Len(relevant_sentences) > 0
             THEN Join(relevant_sentences
                       \o FirstN(sentences, EdgeSentences)
                       \o LastN(sentences, EdgeSentences), ". ")
             ELSE Slice(transcript, 0, LongTranscriptLen)
    ELSE transcript

\* the text handed to the tagger for a transcript
TaggerInput(transcript) ==
    IF Len(transcript) > LongTranscriptLen
    THEN LET sentences == StripAll(SplitDots(transcript))
             relevant_sentences == SelectSeq(sentences, IsRelevant)
         IN  IF Len(relevant_sentences) > 0
             THEN Join(FirstN(relevant_sentences, MaxRelevantSentences)
                       \o FirstN(sentences, EdgeSentences)
                       \o LastN(sentences, EdgeSentences), ". ")
             ELSE Slice(transcript, 0, LongTranscriptLen)
    ELSE transcript

\* an assembly whose phone field is filled only when there is no doc
AssembleResult_PhoneWithoutDoc(transcript, doc) ==
    [name            |-> extract_name(transcript, doc),
     email           |-> extract_email(transcript),
     phone           |-> IF doc.present THEN None ELSE extract_phone(transcript),
     college         |-> extract_college(transcript, doc),
     degree          |-> extract_degree(transcript, doc),
     graduation_year |-> extract_graduation_year(transcript, doc),
     experience      |-> extract_experience(transcript),
     location        |-> extract_location(transcript, doc),
     skills          |-> extract_skills(transcript)]

\* the result assembled on the full path, for the doc obtained (NoDoc when
\* the tagger is unavailable)
AssembleResult(transcript, doc) ==
    [name            |-> extract_name(transcript, doc),
     email           |-> extract_email(transcript),
     phone           |-> extract_phone(transcript),
     college         |-> extract_college(transcript, doc),
     degree          |-> extract_degree(transcript, doc),
     graduation_year |-> extract_graduation_year(transcript, doc),
     experience      |-> extract_experience(transcript),
     location        |-> extract_location(transcript, doc),
     skills          |-> extract_skills(transcript)]

---------------------------------------------------------------------------
(* The tagger: what nlp(text) can return *)

\* spans a tagger may report, with their labels
ENTITY_GAZETTEER ==
    <<[text |-> "Priya Sharma", label |-> "PERSON"],
      [text |-> "J. Doe", label |-> "PERSON"],
      [text |-> "Anna University", label |-> "ORG"],
      [text |-> "Infosys", label |-> "ORG"],
      [text |-> "Navi Mumbai", label |-> "GPE"],
      [text |-> "Goa", label |-> "GPE"],
      [text |-> "India", label |-> "GPE"],
      [text |-> "Python", label |-> "GPE"],
      [text |-> "NY", label |-> "GPE"],
      [text |-> "Sector 21", label |-> "GPE"],
      [text |-> "Kerala", label |-> "GPE"],
      [text |-> "Tamil Nadu", label |-> "GPE"]>>

\* the gazetteer spans that occur in the text
EntitiesIn(text) == LET Occurs(e) == Contains(text, e.text) IN SelectSeq(ENTITY_GAZETTEER, Occurs)

\* the text cut into sentences after each full stop that is followed by
\* whitespace (the sentences keep their full stop, as sent.text does)
RECURSIVE SentencesOf(_)
SentencesOf(text) ==
    LET Cuts == {i \in 0..(Len(text) - 2) : At(text, i) = "." /\ At(text, i + 1) \in SpaceSet}
        c == SetMin(Cuts)
    IN  IF Cuts = {} THEN (IF Strip(text) = "" THEN <<>> ELSE <<Strip(text)>>)
        ELSE <<Strip(Slice(text, 0, c + 1))>> \o SentencesOf(SliceFrom(text, c + 1))

\* the annotations nlp(text) may produce: the text as one sentence or cut
\* into sentences, with or without the entities it holds
Annotations(text) ==
    {MkDoc(text, sents, ents) :
        sents \in {<<text>>, SentencesOf(text)},
        ents \in {<<>>, EntitiesIn(text)}}

---------------------------------------------------------------------------
(* Calls and their records *)

\* the outcomes of nlp(text): an exception, or one of the annotations
TaggerOutcomes(text) ==
    {[raised |-> TRUE, doc |-> NoDoc]}
    \cup {[raised |-> FALSE, doc |-> d] : d \in Annotations(text)}

\* what a call that raised leaves in place of a result
NoResult == [exception |-> TRUE]

NoCall ==
    [op |-> "none", transcript |-> "", path |-> "none", outcome |-> "none",
     result |-> NoResult, handleBefore |-> "None", handleAfter |-> "None",
     loadTried |-> FALSE, available |-> FALSE, tagged |-> None, doc |-> NoDoc,
     returned |-> "none"]

\* load_nlp_model: the handle after the call, for the outcome o the load
\* has if it is attempted
HandleAfterCall(handle, o) == IF NeedsLoad(handle) THEN HandleAfterLoad(o) ELSE handle

\* a call of load_nlp_model()
LoadCall(handle, o) ==
    [NoCall EXCEPT
        !.op = "load_nlp_model",
        !.outcome = "returned",
        !.handleBefore = handle,
        !.handleAfter = HandleAfterCall(handle, o),
        !.loadTried = NeedsLoad(handle),
        !.available = LoadReturn(HandleAfterCall(handle, o)) # "None",
        !.returned = LoadReturn(HandleAfterCall(handle, o))]

\* a call of extract_candidate_info(transcript) with the handle as it is at
\* the call, the outcome o of the load (if one is attempted) and the outcome
\* tag of the tagger call (if one is made)
ExtractCall(transcript, handle, o, tag) ==
    LET base == [NoCall EXCEPT
                    !.op = "extract_candidate_info",
                    !.transcript = transcript,
                    !.handleBefore = handle,
                    !.handleAfter = handle]
        \* the full path, for the call of load_nlp_model it makes; doc is
        \* what the entity extractors are given
        Full(loaded, raised, doc) ==
            [base EXCEPT
                !.path = "full",
                !.handleAfter = loaded.handleAfter,
                !.loadTried = loaded.loadTried,
                !.available = loaded.available,
                !.tagged = IF loaded.available THEN Some(TaggerInput(transcript)) ELSE None,
                !.doc = doc,
                !.outcome = IF raised THEN "raised" ELSE "returned",
                !.result = IF raised THEN NoResult ELSE AssembleResult(transcript, doc)]
        Loaded(loaded) ==
            Full(loaded,
                 loaded.available /\ tag.raised,
                 IF loaded.available THEN tag.doc ELSE NoDoc)
    IN  IF TooShort(transcript)
        THEN [base EXCEPT !.path = "short", !.outcome = "returned", !.result = EmptyResult]
        ELSE Loaded(LoadCall(handle, o))

---------------------------------------------------------------------------
(* The candidate store: backend/services/db.py *)

\* the fields of a candidate, as CandidateBase declares them
CANDIDATE_FIELDS ==
    {"name", "email", "phone", "college", "degree", "graduation_year", "experience",
     "location", "skills", "transcript"}

\* value.split(): the maximal runs of non-whitespace characters, in order
RECURSIVE SplitBlanks(_)
SplitBlanks(s) ==
    LET a == LStripPos(s, 0)
        e == RunEnd(s, a, CharsOf(s) \ SpaceSet)
    IN  IF a >= Len(s) THEN <<>>
        ELSE <<Slice(s, a, e)>> \o SplitBlanks(SliceFrom(s, e))

\* every character of s is of class C
AllIn(s, C) == \A i \in 0..(Len(s) - 1) : At(s, i) \in C

\* s without the one newline that "$" lets a match end before
BeforeFinalNewline(s) ==
    IF Len(s) > 0 /\ At(s, Len(s) - 1) = "\n" THEN Slice(s, 0, Len(s) - 1) ELSE s

\* re.match(r'^[A-Za-z0-9._%+-]+@[A-Za-z0-9.-]+\.[A-Z|a-z]{2,}$', email)
EmailFullMatch(email) ==
    LET Whole(s) ==
            LET a == Find(s, "@")
            IN  /\ a >= 1
                /\ AllIn(Slice(s, 0, a), EmailLocalSet)
                /\ \E d \in (a + 2)..(Len(s) - 3) :
                      /\ At(s, d) = "."
                      /\ AllIn(Slice(s, a + 1, d), EmailDomainSet)
                      /\ AllIn(SliceFrom(s, d + 1), EmailTldSet)
    IN  Whole(email) \/ Whole(BeforeFinalNewline(email))

\* db.validate_email, of an optional string
db_validate_email(email) ==
    IF IsNone(email) \/ email = Some("") THEN FALSE ELSE EmailFullMatch(email[1])

DbMinPhoneDigits == 10
DbMaxPhoneDigits == 15

\* db.validate_phone
db_validate_phone(phone) ==
    IF IsNone(phone) \/ phone = Some("") THEN FALSE
    ELSE LET digits == CountIn(phone[1], 0, DigitSet \cup {"+"})
         IN  DbMinPhoneDigits <= digits /\ digits <= DbMaxPhoneDigits

DbMinYear == 1950
DbMaxYear == 2030

\* db.validate_year
db_validate_year(year) ==
    IF IsNone(year) THEN FALSE ELSE DbMinYear <= year[1] /\ year[1] <= DbMaxYear

DbMinNameLen == 2
DbMaxNameLen == 50

NameCharSet == LetterSet \cup SpaceSet \cup {"-", "'"}

\* re.match(r'^[A-Za-z\s\-\']{2,50}$', name)
validate_name(name) ==
    IF IsNone(name) \/ name = Some("") THEN FALSE
    ELSE LET Whole(s) ==
                 DbMinNameLen <= Len(s) /\ Len(s) <= DbMaxNameLen /\ AllIn(s, NameCharSet)
         IN  Whole(name[1]) \/ Whole(BeforeFinalNewline(name[1]))

\* sanitize_string: blank runs collapsed, cut to max_length, trimmed
sanitize_string(value, max_length) ==
    IF IsNone(value) \/ value = Some("") THEN None
    ELSE Some(Strip(Slice(Join(SplitBlanks(value[1]), " "), 0, max_length)))

MaxSkills == 20

\* sanitize_skills: the skills between commas, trimmed, without duplicates,
\* sorted, at most 20 of them
sanitize_skills(skills) ==
    IF IsNone(skills) \/ skills = Some("") THEN None
    ELSE LET skill_list == StripAll(SplitOn(skills[1], ","))
             unique_skills == FirstN(SortedStrings(Range(skill_list)), MaxSkills)
         IN  Some(Join(unique_skills, ", "))

\* a value that Python takes as false: None or the empty string, None or zero
Falsy(v) == IsNone(v) \/ v = Some("")
FalsyYear(v) == IsNone(v) \/ v = Some(0)

\* the checks of validate_candidate_data, with the order of the email and
\* the phone check exchanged
validate_candidate_data_PhoneFirst(data) ==
    IF ~Falsy(data.phone) /\ ~db_validate_phone(data.phone)
    THEN Some("Invalid phone number format")
    ELSE IF ~Falsy(data.email) /\ ~db_validate_email(data.email)
    THEN Some("Invalid email format")
    ELSE IF ~FalsyYear(data.graduation_year) /\ ~db_validate_year(data.graduation_year)
    THEN Some("Invalid graduation year")
    ELSE IF ~Falsy(data.name) /\ ~validate_name(data.name)
    THEN Some("Invalid name format")
    ELSE None

\* validate_candidate_data: the error message of the first check that
\* fails, None when the data is valid
validate_candidate_data(data) ==
    IF ~Falsy(data.email) /\ ~db_validate_email(data.email)
    THEN Some("Invalid email format")
    ELSE IF ~Falsy(data.phone) /\ ~db_validate_phone(data.phone)
    THEN Some("Invalid phone number format")
    ELSE IF ~FalsyYear(data.graduation_year) /\ ~db_validate_year(data.graduation_year)
    THEN Some("Invalid graduation year")
    ELSE IF ~Falsy(data.name) /\ ~validate_name(data.name)
    THEN Some("Invalid name format")
    ELSE None

\* the sanitized data_dict of create_candidate
Sanitized(data) ==
    [name            |-> sanitize_string(data.name, 100),
     email           |-> sanitize_string(data.email, 100),
     phone           |-> sanitize_string(data.phone, 20),
     college         |-> sanitize_string(data.college, 200),
     degree          |-> sanitize_string(data.degree, 100),
     graduation_year |-> data.graduation_year,
     experience      |-> sanitize_string(data.experience, 50),
     location        |-> sanitize_string(data.location, 100),
     skills          |-> sanitize_skills(data.skills),
     transcript      |-> sanitize_string(data.transcript, 50000)]

\* cursor.lastrowid of an insert: the id column is AUTOINCREMENT, so the id
\* is one more than the largest id the table has given out, whether or not
\* the row that had it is still there
NextRowId(seq) == seq + 1

\* the outcomes of the INSERT and the commit: done, or sqlite3 raises
DbOutcomes == {"ok", "sqlite3.Error"}

\* create_candidate(candidate_data) on a table with the given rows that has
\* given out the ids up to seq: how the call ends, the rows and the largest
\* id given out afterwards, and the id returned
create_candidate(candidate_data, rows, seq, db) ==
    LET Checked(data_dict, error_msg) ==
            IF ~IsNone(error_msg)
            THEN [outcome |-> "ValueError", detail |-> error_msg[1], rows |-> rows,
                  seq |-> seq, id |-> 0]
            ELSE IF db # "ok"
            THEN [outcome |-> db, detail |-> "database is locked", rows |-> rows,
                  seq |-> seq, id |-> 0]
            ELSE [outcome |-> "returned", detail |-> "",
                  rows |-> Append(rows, [id |-> NextRowId(seq), data |-> data_dict]),
                  seq |-> NextRowId(seq),
                  id |-> NextRowId(seq)]
        Validated(data_dict) == Checked(data_dict, validate_candidate_data(data_dict))
    IN  Validated(Sanitized(candidate_data))

\* delete_candidate(candidate_id): the row with that id is removed, and the
\* call returns whether there was one; the ids given out stay given out
delete_candidate(candidate_id, rows, db) ==
    IF db # "ok"
    THEN [outcome |-> db, deleted |-> FALSE, rows |-> rows]
    ELSE [outcome |-> "returned",
          deleted |-> \E k \in 1..Len(rows) : rows[k].id = candidate_id,
          rows |-> SelectSeq(rows, LAMBDA row : row.id # candidate_id)]

---------------------------------------------------------------------------
(* The process_audio workflow: backend/app.py *)

ALLOWED_EXTENSIONS == {".mp3", ".wav", ".m4a", ".mp4", ".ogg", ".flac", ".webm"}

\* 500 * 1024 * 1024
MAX_FILE_SIZE == 524288000

\* no request: nothing received, nothing answered
NoRequest ==
    [pc |-> "idle", file_ext |-> "", file |-> "", saved |-> FALSE, transcribed |-> None,
     extracted |-> NoResult, status |-> 0, detail |-> "", candidate_id |-> 0]

\* no request to upload_audio yet
NoTransfer == [pc |-> "idle", filename |-> "", status |-> 0, detail |-> ""]

\* the service before its first request
IdleService ==
    /\ uploads = {}
    /\ candidates = <<>>
    /\ sequence = 0
    /\ request = NoRequest
    /\ transfer = NoTransfer

\* raise HTTPException(status_code, detail) leaving process_audio
Rejected(req, status_code, detail) ==
    [req EXCEPT !.pc = "done", !.status = status_code, !.detail = detail]

\* the candidate_data built from the extracted fields and the transcript
CandidateData(extracted_data, transcript) ==
    [k \in CANDIDATE_FIELDS |->
        IF k = "transcript" THEN Some(transcript) ELSE extracted_data[k]]

MinTranscribedLen == 10

\* if not transcript or len(transcript.strip()) < 10
Insufficient(transcript) == transcript = "" \/ Len(Strip(transcript)) < MinTranscribedLen

---------------------------------------------------------------------------
(* Bounds and inputs *)

\* the number of calls made in one process
MaxCalls == 3

\* the number of concurrent first callers of load_nlp_model
NumCallers == 2

Callers == 1..NumCallers

\* the transcripts a process is called with: empty, blank, short after
\* trimming (9 characters, and 6 characters inside 10), exactly 10
\* characters, and one that every extractor finds something in
ProcTranscripts ==
    {"",
     "            ",
     "i use sql",
     "  hi all  ",
     "i know sql",
     "Priya Sharma here. I completed b.tech in physics from Anna University in 2019. I live in Goa, India. 3 years of experience in sql. Mail Priya@X.com or call 9876543210."}

\* the greatest number of extra blanks between a lead and "degree in"
MaxPad == 2

RECURSIVE Blanks(_)
Blanks(n) ==
    IF n = 0 THEN "" ELSE IF n = 1 THEN " "
    ELSE Blanks(n \div 2) \o Blanks(n - (n \div 2))

RECURSIVE Filler(_)
Filler(n) ==
    IF n = 0 THEN "" ELSE IF n = 1 THEN "y"
    ELSE Filler(n \div 2) \o Filler(n - (n \div 2))

\* what precedes "degree in": nothing, or words that hold indicators of the
\* bachelor family, of the master family, or of both
DegreeLeads ==
    {"", "so my", "undergraduate", "ug", "bachelor", "b.tech", "the b.e and b.tech",
     "pg", "m.tech then b.e and a"}

\* the "degree in <phrase>" mentions
DegreeCores ==
    {"degree in data science", "degree in the pg data science"}

\* what follows the mention; the last three put "master" at the end of, just
\* inside and just outside the 200 characters searched from the match
DegreeTails ==
    {"", " as a master", " in my ug days",
     " " \o Filler(169) \o " master",
     " " \o Filler(170) \o " master",
     " " \o Filler(171) \o " master"}

\* the transcripts rule 1 is applied to
DegreeInTranscripts ==
    {lead \o Blanks(1 + pad) \o core \o tail :
        lead \in DegreeLeads, pad \in 0..MaxPad, core \in DegreeCores, tail \in DegreeTails}

\* transcripts for the other rules: both of rules 1 and 2, rule 2 alone, an
\* abbreviation with a specialization, an abbreviation alone, no degree
OtherDegreeTranscripts ==
    {"bachelor of technology in physics. my degree in data science",
     "master of science in physics",
     "bachelor in computer science then master in finance",
     "i completed b.tech in computer science",
     "i completed my b.tech. i like physics",
     "btech from pune",
     "i studied m.sc. maths and statistics was my major",
     "hello there everyone"}

\* phrases after "degree in" that hold several entries of the list, are held
\* by several entries, or resolve to none
PhraseTranscripts ==
    {"I completed my degree in computer science engineering, it was a B.Tech",
     "my degree in information technology engineering",
     "a degree in science engineering",
     "my degree in the science",
     "degree in it and management science"}

\* full degree names: the level and the field, written with one blank or
\* with more, or the level alone
FullNames ==
    {"bachelor of technology", "bachelor of engineering", "bachelor  of  science",
     "bachelor of arts", "bachelor of commerce",
     "master of technology", "master of engineering", "master of science",
     "master of arts", "master of commerce", "master of business administration",
     "bachelor", "master"}

FullNameJoins == {" in ", " "}

FullNameSpecs == {"information technology engineering", "computer science", "finance"}

FullNameTranscripts ==
    {"i did " \o name \o join \o spec :
        name \in FullNames, join \in FullNameJoins, spec \in FullNameSpecs}
    \cup {"master in physics and bachelor of arts in information technology",
          "i completed b.tech in information technology engineering. it was fun"}

\* an abbreviation in a degree-context sentence with the specialization
\* elsewhere: next to a skills cue with and without a degree cue, two
\* sentences away, more than 60 characters away, long and short
Rule4Transcripts ==
    {"i completed my b.tech. i know physics well",
     "i studied hard for my b.sc. i am good at statistics",
     "i completed my m.tech. it was fun. physics was my major subject",
     "i completed my b.tech. it was fun. physics was my major subject",
     "i graduated with an mba. it was fun. later i took up finance",
     "i graduated with an m.sc. it was fun. my major was chemistry",
     "i completed my b.tech. " \o Filler(70) \o " expert at physics",
     "i completed my b.tech. " \o Filler(70) \o " physics rocks",
     "i completed my b.tech. " \o Filler(70) \o " cse rocks"}

DegreeSubjects ==
    DegreeInTranscripts \cup OtherDegreeTranscripts
    \cup PhraseTranscripts \cup FullNameTranscripts \cup Rule4Transcripts

---------------------------------------------------------------------------
(* The process: calls made one after the other *)

Init ==
    /\ nlp = "None"
    /\ calls = 0
    /\ earlier = NoCall
    /\ last = NoCall
    /\ loads = 0
    /\ assigns = 0
    /\ pc = [c \in Callers |-> "idle"]
    /\ fetched = [c \in Callers |-> "none"]
    /\ seen = [c \in Callers |-> "none"]
    /\ subject = ""
    /\ IdleService

\* the bookkeeping shared by the two kinds of call
Record(call) ==
    /\ last' = call
    /\ nlp' = call.handleAfter
    /\ calls' = calls + 1
    /\ loads' = loads + (IF call.loadTried THEN 1 ELSE 0)
    /\ assigns' = assigns + (IF call.loadTried THEN 1 ELSE 0)
    /\ UNCHANGED <<pc, fetched, subject, uploads, candidates, request,
                   seen, sequence, transfer>>

\* the choices the environment has for a call on this transcript
LoadChoices(transcript) ==
    IF ~TooShort(transcript) /\ NeedsLoad(nlp) THEN LoadOutcomes ELSE {"ok"}

TagChoices(transcript, o) ==
    IF ~TooShort(transcript) /\ LoadCall(nlp, o).available
    THEN TaggerOutcomes(TaggerInput(transcript))
    ELSE {[raised |-> FALSE, doc |-> NoDoc]}

ExtractCandidateInfo ==
    /\ calls < MaxCalls
    /\ \E transcript \in ProcTranscripts :
         \E o \in LoadChoices(transcript) :
           \E tag \in TagChoices(transcript, o) :
             \E call \in {ExtractCall(transcript, nlp, o, tag)} :
                 /\ Record(call)
                 /\ earlier' \in {earlier, call}

LoadNlpModel ==
    /\ calls < MaxCalls
    /\ \E o \in (IF NeedsLoad(nlp) THEN LoadOutcomes ELSE {"ok"}) :
         /\ Record(LoadCall(nlp, o))
         /\ earlier' = earlier

Next == ExtractCandidateInfo \/ LoadNlpModel

Spec == Init /\ [][Next]_vars

---------------------------------------------------------------------------
(* Concurrent first callers of load_nlp_model, one statement at a time *)

\* if _nlp is None:
CallerChecks(c) ==
    /\ pc[c] = "idle"
    /\ seen' = [seen EXCEPT ![c] = nlp]
    /\ pc' = [pc EXCEPT ![c] = IF NeedsLoad(nlp) THEN "loading" ELSE "returning"]
    /\ UNCHANGED <<nlp, calls, earlier, last, loads, assigns, fetched, subject, uploads,
                   candidates, request, sequence, transfer>>

\* spacy.load("en_core_web_sm") returns or raises
CallerLoads(c) ==
    /\ pc[c] = "loading"
    /\ \E o \in LoadOutcomes :
         /\ fetched' = [fetched EXCEPT ![c] = o]
         /\ loads' = loads + 1
         /\ pc' = [pc EXCEPT ![c] = "assigning"]
    /\ UNCHANGED <<nlp, calls, earlier, last, assigns, subject, uploads, candidates, request,
                   seen, sequence, transfer>>

\* _nlp = <the model>, or _nlp = False in the except clause
CallerAssigns(c) ==
    /\ pc[c] = "assigning"
    /\ nlp' = HandleAfterLoad(fetched[c])
    /\ assigns' = assigns + 1
    /\ pc' = [pc EXCEPT ![c] = "returning"]
    /\ UNCHANGED <<calls, earlier, last, loads, fetched, subject, uploads, candidates, request,
                   seen, sequence, transfer>>

\* the condition of "return _nlp if _nlp is not False else None": the first
\* of the two reads of _nlp the statement makes
CallerTests(c) ==
    /\ pc[c] = "returning"
    /\ pc' = [pc EXCEPT ![c] = IF nlp # "False" THEN "returnsHandle" ELSE "returnsNone"]
    /\ UNCHANGED <<nlp, calls, earlier, last, loads, assigns, fetched, subject, uploads,
                   candidates, request, seen, sequence, transfer>>

\* the value of "return _nlp if _nlp is not False else None": _nlp as it is
\* now, read a second time, when the condition held, and None otherwise
CallerReturns(c) ==
    /\ pc[c] \in {"returnsHandle", "returnsNone"}
    /\ pc' = [pc EXCEPT ![c] = "done"]
    /\ \E value \in {IF pc[c] = "returnsHandle" THEN nlp ELSE "None"} :
         last' = [NoCall EXCEPT
                     !.op = "load_nlp_model",
                     !.outcome = "returned",
                     !.handleBefore = seen[c],
                     !.handleAfter = nlp,
                     !.loadTried = NeedsLoad(seen[c]),
                     !.available = value # "None",
                     !.returned = value]
    /\ calls' = calls + 1
    /\ UNCHANGED <<nlp, earlier, loads, assigns, fetched, subject, uploads, candidates, request,
                   seen, sequence, transfer>>

NextConc ==
    \E c \in Callers :
        \/ CallerChecks(c)
        \/ CallerLoads(c)
        \/ CallerAssigns(c)
        \/ CallerTests(c)
        \/ CallerReturns(c)

SpecConc == Init /\ [][NextConc]_vars

---------------------------------------------------------------------------
(* extract_degree applied to one transcript and one annotation *)

InitDegree ==
    /\ nlp = "None"
    /\ calls = 0
    /\ earlier = NoCall
    /\ last = NoCall
    /\ loads = 0
    /\ assigns = 0
    /\ pc = [c \in Callers |-> "idle"]
    /\ fetched = [c \in Callers |-> "none"]
    /\ seen = [c \in Callers |-> "none"]
    /\ subject \in DegreeSubjects
    /\ IdleService

\* extract_degree(transcript, doc), with doc = None or an annotation
ApplyExtractDegree ==
    /\ calls = 0
    /\ \E doc \in {NoDoc} \cup Annotations(subject) :
         last' = [NoCall EXCEPT
                     !.op = "extract_degree",
                     !.transcript = subject,
                     !.doc = doc,
                     !.outcome = "returned",
                     !.result = [degree |-> extract_degree(subject, doc)]]
    /\ calls' = 1
    /\ UNCHANGED <<nlp, earlier, loads, assigns, pc, fetched, subject, uploads, candidates, request,
                   seen, sequence, transfer>>

NextDegree == ApplyExtractDegree

SpecDegree == InitDegree /\ [][NextDegree]_vars

---------------------------------------------------------------------------
(* The field extractors applied to one transcript and one annotation *)

\* durations: one pattern or several, in range or not
ExperienceTranscripts ==
    {"I have 5 years of experience and mentioned 3 years in another context",
     "3 years in sales then 7 years of experience",
     "60 years of experience, I mean 6 years of experience",
     "0 yrs experience. experience of 4 years",
     "experience 2yrs",
     "worked 12 years working hard",
     "99 years in prison"}

\* phone numbers of nine digits, of ten, with a prefix, and too long
PhoneTranscripts ==
    {"call 9876543210",
     "call 987654321",
     "12 987654321",
     "+91-987-654-3210",
     "(987) 654-3210 ext 12345678",
     "phone 12345678901234567",
     "98765 43210 or 9123456780"}

SkillTranscripts ==
    {"I know Python and have used AWS and Docker",
     "python, java",
     "Machine Learning and data science with c++ c# .net",
     "python PYTHON Python",
     "machine  learning",
     "nothing to tell"}

LocationTranscripts ==
    {"I live in Goa, India",
     "from Navi Mumbai",
     "based in NY near Sector 21 of Tamil Nadu",
     "I code in Python in India",
     "moved from pune to CHENNAI",
     "Kerala or Tamil Nadu",
     "puneet lives in indore"}

YearTranscripts ==
    {"I graduated in 2015. I joined in 2020.",
     "born 1940 and graduated in 1995. nothing",
     "i completed school in 2035 and college in 2015. I joined work in 2020.",
     "in 2015 and 2020 and 2035",
     "x2015 and 1999",
     "studied hard. finished in 1949. passout 1987."}

FieldSubjects ==
    ExperienceTranscripts \cup PhoneTranscripts \cup SkillTranscripts
    \cup LocationTranscripts \cup YearTranscripts

InitFields ==
    /\ nlp = "None"
    /\ calls = 0
    /\ earlier = NoCall
    /\ last = NoCall
    /\ loads = 0
    /\ assigns = 0
    /\ pc = [c \in Callers |-> "idle"]
    /\ fetched = [c \in Callers |-> "none"]
    /\ seen = [c \in Callers |-> "none"]
    /\ subject \in FieldSubjects
    /\ IdleService

\* the record of one extractor applied to the subject
Applied(op, doc, result) ==
    /\ calls = 0
    /\ last' = [NoCall EXCEPT
                   !.op = op,
                   !.transcript = subject,
                   !.doc = doc,
                   !.outcome = "returned",
                   !.result = result]
    /\ calls' = 1
    /\ UNCHANGED <<nlp, earlier, loads, assigns, pc, fetched, subject, uploads, candidates, request,
                   seen, sequence, transfer>>

ApplyExtractExperience ==
    Applied("extract_experience", NoDoc, [experience |-> extract_experience(subject)])

ApplyExtractPhone ==
    Applied("extract_phone", NoDoc, [phone |-> extract_phone(subject)])

ApplyExtractSkills ==
    Applied("extract_skills", NoDoc, [skills |-> extract_skills(subject)])

ApplyExtractLocation ==
    \E doc \in {NoDoc} \cup Annotations(subject) :
        Applied("extract_location", doc, [location |-> extract_location(subject, doc)])

ApplyExtractGraduationYear ==
    \E doc \in {NoDoc} \cup Annotations(subject) :
        Applied("extract_graduation_year", doc,
                [graduation_year |-> extract_graduation_year(subject, doc)])

NextFields ==
    \/ ApplyExtractExperience
    \/ ApplyExtractPhone
    \/ ApplyExtractSkills
    \/ ApplyExtractLocation
    \/ ApplyExtractGraduationYear

SpecFields == InitFields /\ [][NextFields]_vars

---------------------------------------------------------------------------
(* One process called with a long transcript *)

\* "q<a>. q<a+1>. ... q<b>. ": short sentences that hold no keyword
RECURSIVE ShortSentences(_, _)
ShortSentences(a, b) ==
    IF a > b THEN "" ELSE "q" \o StrOf(a) \o ". " \o ShortSentences(a + 1, b)

\* n characters of two-letter words that hold no keyword and are kept apart
\* by commas
RECURSIVE Padding(_)
Padding(n) ==
    IF n <= 4 THEN SubSeq("xy, ", 1, n)
    ELSE LET h == 4 * ((n \div 4) \div 2)
         IN  IF h = 0 THEN "xy, " \o Padding(n - 4) ELSE Padding(h) \o Padding(n - h)

\* the same, ended by the letter z
Words(n) == Padding(n - 1) \o "z"

\* sentences of n, n + 1, ... n + k - 1 characters that hold no keyword
RECURSIVE LongSentences(_, _)
LongSentences(n, k) ==
    IF k = 0 THEN "" ELSE Words(n) \o ". " \o LongSentences(n + 1, k - 1)

\* transcripts around the 2000 character limit: below it, exactly at it,
\* just above it with one short sentence, without any sentence to retain
\* (one sentence, several sentences), with more short sentences than are
\* retained, with sentences retained for a keyword only, with blank pieces
\* between the full stops, and with sentences of 99 and 100 characters
SamplerTranscripts ==
    {"Priya Sharma here. I completed b.tech in physics from Anna University in 2019. I live in Goa, India.",
     "my name is bob. " \o Words(LongTranscriptLen - 16),
     "my name is bob. " \o Words(LongTranscriptLen - 15),
     Words(LongTranscriptLen + 1),
     LongSentences(150, 14),
     ShortSentences(1, 30) \o Words(1900),
     ShortSentences(1, 26) \o LongSentences(400, 5),
     LongSentences(200, 5) \o "I GRADUATED FROM " \o LongSentences(120, 1)
         \o "then i live in " \o LongSentences(130, 1) \o LongSentences(210, 5),
     "q1 . .. q2.  . " \o Words(LongTranscriptLen),
     LongSentences(ShortSentenceLen - 1, 2) \o LongSentences(300, 7)}

InitSampler ==
    /\ nlp = "None"
    /\ calls = 0
    /\ earlier = NoCall
    /\ last = NoCall
    /\ loads = 0
    /\ assigns = 0
    /\ pc = [c \in Callers |-> "idle"]
    /\ fetched = [c \in Callers |-> "none"]
    /\ seen = [c \in Callers |-> "none"]
    /\ subject \in SamplerTranscripts
    /\ IdleService

\* load_nlp_model() called before the transcript is processed
LoadBeforeSubject ==
    /\ calls = 0
    /\ \E o \in LoadOutcomes :
         /\ Record(LoadCall(nlp, o))
         /\ earlier' = earlier

\* extract_candidate_info(subject), as the first call or after the load
ExtractSubject ==
    /\ last.op # "extract_candidate_info"
    /\ \E o \in LoadChoices(subject) :
         \E tag \in TagChoices(subject, o) :
           \E call \in {ExtractCall(subject, nlp, o, tag)} :
               /\ Record(call)
               /\ earlier' = earlier

NextSampler == LoadBeforeSubject \/ ExtractSubject

SpecSampler == InitSampler /\ [][NextSampler]_vars

---------------------------------------------------------------------------
(* One request to process_audio *)

\* the uploads a client may send: the suffix of the file name and the size
UploadSuffixes == {".mp3", ".WAV", ".txt", ""}
UploadSizes == {0, 1024, MAX_FILE_SIZE + 1}

\* what transcribe_audio may return: nothing, too little, and transcripts
\* whose fields are all valid or hold a name the store rejects
TranscribedTexts ==
    {"",
     "um hello",
     "Priya Sharma here. I completed b.tech in physics from Anna University in 2019. Mail priya@x.com or call 9876543210.",
     "this is J. Doe speaking. i studied at Anna University and graduated in 2015.",
     "my name is Asha Rao. I know python and aws. I live in pune and have 4 years of experience."}

\* os.remove(file_path) succeeds or raises
RemoveOutcomes == {"ok", "OSError"}

\* the extension check, up to "await file.read()": there process_audio
\* hands control back to the event loop
ReceiveUpload ==
    /\ request.pc = "idle"
    /\ \E suffix \in UploadSuffixes :
         request' =
             IF Lower(suffix) \notin ALLOWED_EXTENSIONS
             THEN Rejected(request, 400, "File type not allowed")
             ELSE [request EXCEPT !.pc = "reading", !.file_ext = Lower(suffix)]
    /\ UNCHANGED <<nlp, calls, earlier, last, loads, assigns, pc, fetched, subject,
                   uploads, candidates, seen, sequence, transfer>>

\* the content has been read: the size checks and the choice of the unique
\* file name
ReadUpload ==
    /\ request.pc = "reading"
    /\ \E file_size \in UploadSizes :
         request' =
             IF file_size > MAX_FILE_SIZE
             THEN Rejected(request, 400, "File too large")
             ELSE IF file_size = 0
             THEN Rejected(request, 400, "File is empty")
             ELSE [request EXCEPT !.pc = "saving", !.file = "uuid4" \o request.file_ext]
    /\ UNCHANGED <<nlp, calls, earlier, last, loads, assigns, pc, fetched, subject,
                   uploads, candidates, seen, sequence, transfer>>

\* step 1: the file is written; when open() or write() raises, the handler
\* of unexpected errors removes what exists of the file, if it can
SaveUpload ==
    /\ request.pc = "saving"
    /\ \E o \in {"ok", "open raises", "write raises"}, removal \in RemoveOutcomes :
         /\ uploads' =
                IF o = "ok" \/ (o = "write raises" /\ removal # "ok")
                THEN uploads \cup {request.file}
                ELSE uploads
         /\ request' =
                IF o = "ok"
                THEN [request EXCEPT !.pc = "transcribing", !.saved = TRUE]
                ELSE Rejected(request, 500, "Processing error")
    /\ UNCHANGED <<nlp, calls, earlier, last, loads, assigns, pc, fetched, subject,
                   candidates,
                   seen, sequence, transfer>>

\* step 2: transcribe_audio returns or raises; the HTTPException raised for
\* an insufficient transcript is raised inside the try block, whose
\* "except Exception" catches it as it catches what transcribe_audio raises
TranscribeUpload ==
    /\ request.pc = "transcribing"
    /\ \/ request' = Rejected(request, 500, "Transcription failed")
       \/ \E transcript \in TranscribedTexts :
            request' =
                IF Insufficient(transcript)
                THEN Rejected([request EXCEPT !.transcribed = Some(transcript)],
                              500, "Transcription failed")
                ELSE [request EXCEPT !.pc = "extracting",
                                     !.transcribed = Some(transcript)]
    /\ UNCHANGED <<nlp, calls, earlier, last, loads, assigns, pc, fetched, subject,
                   uploads, candidates,
                   seen, sequence, transfer>>

\* step 3: extract_candidate_info(transcript)
ExtractFromUpload ==
    /\ request.pc = "extracting"
    /\ \E o \in LoadChoices(request.transcribed[1]) :
         \E tag \in TagChoices(request.transcribed[1], o) :
           \E call \in {ExtractCall(request.transcribed[1], nlp, o, tag)} :
               /\ last' = call
               /\ nlp' = call.handleAfter
               /\ calls' = calls + 1
               /\ loads' = loads + (IF call.loadTried THEN 1 ELSE 0)
               /\ assigns' = assigns + (IF call.loadTried THEN 1 ELSE 0)
               /\ request' =
                      IF call.outcome = "raised"
                      THEN Rejected(request, 500, "Information extraction failed")
                      ELSE [request EXCEPT !.pc = "storing", !.extracted = call.result]
    /\ UNCHANGED <<earlier, pc, fetched, subject, uploads, candidates,
                   seen, sequence, transfer>>

\* step 4: create_candidate(candidate_data); a ValueError becomes a 400,
\* anything else a 500
StoreCandidate ==
    /\ request.pc = "storing"
    /\ \E db \in DbOutcomes :
         \E made \in {create_candidate(
                          CandidateData(request.extracted, request.transcribed[1]),
                          candidates, sequence, db)} :
             /\ candidates' = made.rows
             /\ sequence' = made.seq
             /\ request' =
                    IF made.outcome = "ValueError"
                    THEN Rejected(request, 400, made.detail)
                    ELSE IF made.outcome # "returned"
                    THEN Rejected(request, 500, "Failed to save candidate")
                    ELSE [request EXCEPT !.pc = "cleaning", !.candidate_id = made.id]
    /\ UNCHANGED <<nlp, calls, earlier, last, loads, assigns, pc, fetched, subject,
                   uploads, seen, transfer>>

\* the clean-up after success and the response; a failure of os.remove is
\* logged and the response is the same
CleanUpAndRespond ==
    /\ request.pc = "cleaning"
    /\ \E removal \in RemoveOutcomes :
         uploads' =
             IF request.file \in uploads /\ removal = "ok"
             THEN uploads \ {request.file}
             ELSE uploads
    /\ request' = [request EXCEPT
                      !.pc = "done",
                      !.status = 200,
                      !.detail = "Audio processed and candidate saved successfully"]
    /\ UNCHANGED <<nlp, calls, earlier, last, loads, assigns, pc, fetched, subject,
                   candidates,
                   seen, sequence, transfer>>

\* process_audio and upload_audio are coroutines of one event loop: one of
\* them runs only while the other is at an await or has not begun or has
\* ended
LoopIsFree == request.pc \in {"idle", "reading", "done"}

\* the file names a client of upload_audio may send
UploadStems == {"talk"}

\* upload_audio up to "await file.read()": the extension check, and open(),
\* which creates UPLOAD_DIR/<file.filename> or raises
UploadAudioOpens ==
    /\ LoopIsFree
    /\ transfer.pc \in {"idle", "done"}
    /\ \E stem \in UploadStems, suffix \in UploadSuffixes, o \in {"ok", "open raises"} :
         \E filename \in {stem \o suffix} :
             IF Lower(suffix) \notin ALLOWED_EXTENSIONS
             THEN /\ transfer' = [pc |-> "done", filename |-> filename, status |-> 400,
                                  detail |-> "File type not allowed"]
                  /\ uploads' = uploads
             ELSE IF o # "ok"
             THEN /\ transfer' = [pc |-> "done", filename |-> filename, status |-> 500,
                                  detail |-> "Error uploading file"]
                  /\ uploads' = uploads
             ELSE /\ transfer' = [pc |-> "writing", filename |-> filename, status |-> 0,
                                  detail |-> ""]
                  /\ uploads' = uploads \cup {filename}
    /\ UNCHANGED <<nlp, calls, earlier, last, loads, assigns, pc, fetched, subject,
                   candidates, request, seen, sequence>>

\* upload_audio after the read: the content is written and the response
\* names the file, or the write raises; the file stays in either case
UploadAudioWrites ==
    /\ LoopIsFree
    /\ transfer.pc = "writing"
    /\ \E o \in {"ok", "write raises"} :
         transfer' =
             IF o = "ok"
             THEN [transfer EXCEPT !.pc = "done", !.status = 200,
                                   !.detail = "File uploaded successfully"]
             ELSE [transfer EXCEPT !.pc = "done", !.status = 500,
                                   !.detail = "Error uploading file"]
    /\ UNCHANGED <<nlp, calls, earlier, last, loads, assigns, pc, fetched, subject,
                   uploads, candidates, request, seen, sequence>>

NextWorkflow ==
    \/ UploadAudioOpens
    \/ UploadAudioWrites
    \/ ReceiveUpload
    \/ ReadUpload
    \/ SaveUpload
    \/ TranscribeUpload
    \/ ExtractFromUpload
    \/ StoreCandidate
    \/ CleanUpAndRespond

SpecWorkflow == Init /\ [][NextWorkflow]_vars

---------------------------------------------------------------------------
(* Calls of create_candidate on one candidates table *)

\* the table is followed until it has given out this many ids
MaxStored == 3

\* a CandidateCreate with the given fields, the other fields left unset
Candidate(name, email, phone, graduation_year, skills) ==
    [k \in CANDIDATE_FIELDS |->
        CASE k = "name" -> name
          [] k = "email" -> email
          [] k = "phone" -> phone
          [] k = "graduation_year" -> graduation_year
          [] k = "skills" -> skills
          [] OTHER -> None]

StoreInputs ==
    { Candidate(None, None, None, None, None),
      Candidate(Some("Priya Sharma"), Some("priya@x.com"), Some("9876543210"),
                Some(2019), Some("python, aws, python")),
      Candidate(Some("  Priya   Sharma "), Some(" a@b.co "), None, None, None),
      Candidate(None, None, None, Some(0), None),
      Candidate(None, Some("not-an-email"), None, None, None),
      Candidate(None, Some("bad"), Some("123"), None, None),
      Candidate(Some("R2 D2"), None, Some("123"), Some(1900), None),
      Candidate(Some("R2 D2"), None, None, Some(1900), None),
      Candidate(Some("R2 D2"), None, None, None, None),
      Candidate(Some(""), Some("a@b.c"), None, None, None),
      Candidate(None, None, Some("+91 98765 43210"), Some(2031), None) }

\* one call of create_candidate
CreateCandidate ==
    /\ sequence < MaxStored
    /\ \E candidate_data \in StoreInputs, db \in DbOutcomes :
         \E made \in {create_candidate(candidate_data, candidates, sequence, db)} :
             /\ candidates' = made.rows
             /\ sequence' = made.seq
             /\ last' = [NoCall EXCEPT
                            !.op = "create_candidate",
                            !.outcome = made.outcome,
                            !.result = [id |-> made.id, detail |-> made.detail,
                                        data |-> candidate_data,
                                        before |-> candidates]]
    /\ UNCHANGED <<nlp, calls, earlier, loads, assigns, pc, fetched, subject,
                   uploads, request, seen, transfer>>

\* one call of delete_candidate, with the id of a row of the table, of a
\* row deleted before, or one the table has not given out
DeleteCandidate ==
    \E candidate_id \in 1..(sequence + 1), db \in DbOutcomes :
        \E made \in {delete_candidate(candidate_id, candidates, db)} :
            /\ candidates' = made.rows
            /\ last' = [NoCall EXCEPT
                           !.op = "delete_candidate",
                           !.outcome = made.outcome,
                           !.result = [id |-> candidate_id, deleted |-> made.deleted,
                                       before |-> candidates]]
            /\ UNCHANGED <<nlp, calls, earlier, loads, assigns, pc, fetched, subject,
                           uploads, request, seen, sequence, transfer>>

NextStore == CreateCandidate \/ DeleteCandidate

SpecStore == Init /\ [][NextStore]_vars

---------------------------------------------------------------------------
(* Properties of extract_candidate_info and load_nlp_model *)

IsExtract(call) == call.op = "extract_candidate_info"

\* the nine keys, as the specification lists them
NineKeys ==
    {"name", "email", "phone", "college", "degree", "graduation_year", "experience",
     "location", "skills"}

\* C1: extract_candidate_info returns a complete result and never raises,
\* whatever the outcome of obtaining the annotation (model unavailable, load
\* error, the tagger call failing); a failure leaves the annotation absent
\* and the entity-assisted extractors on their regex-only paths.
C1_NeverRaises ==
    IsExtract(last) =>
        /\ last.outcome = "returned"
        /\ DOMAIN last.result = NineKeys
        /\ (last.path = "full" /\ ~last.doc.present
              => last.result = AssembleResult(last.transcript, NoDoc))

\* C2: concurrent first callers of load_nlp_model are serialized: in no
\* interleaving is the model loaded twice or the handle assigned twice.
C2_LoadSerialized == loads <= 1 /\ assigns <= 1

\* C3: the mapping returned by extract_candidate_info has exactly the nine
\* keys, on the short-transcript path and on the full path alike.
C3_NineKeys ==
    \A call \in {earlier, last} :
        IsExtract(call) /\ call.outcome = "returned" =>
            /\ DOMAIN call.result = NineKeys
            /\ Cardinality(DOMAIN call.result) = 9

C3_Witness ==
    /\ IsExtract(earlier) /\ earlier.path = "short" /\ earlier.outcome = "returned"
    /\ IsExtract(last) /\ last.path = "full" /\ last.outcome = "returned"
    /\ last.doc.present

\* C4: once a load has failed the handle stays unavailable: no later call
\* attempts a load or reports a model, and every later extraction runs
\* regex-only; a handle that loaded is never loaded again.
C4_NoRetry ==
    [][/\ nlp = "False" =>
            /\ nlp' = "False"
            /\ loads' = loads /\ assigns' = assigns
            /\ ~last'.loadTried /\ ~last'.available
            /\ (IsExtract(last') =>
                  /\ last'.outcome = "returned"
                  /\ IsNone(last'.tagged) /\ ~last'.doc.present
                  /\ last'.path = "full" =>
                        last'.result = AssembleResult(last'.transcript, NoDoc))
       /\ nlp = "Model" =>
            /\ nlp' = "Model"
            /\ loads' = loads /\ assigns' = assigns
            /\ ~last'.loadTried]_vars

C4_Witness ==
    /\ nlp = "False" /\ loads = 1 /\ calls = MaxCalls
    /\ IsExtract(last) /\ last.path = "full" /\ last.handleBefore = "False"
    /\ IsExtract(earlier) /\ earlier.loadTried

\* the length of the transcript after trimming
TrimmedLen(transcript) ==
    LET NonBlank == {i \in 1..Len(transcript) : SubSeq(transcript, i, i) \notin SpaceSet}
    IN  IF NonBlank = {} THEN 0 ELSE SetMax(NonBlank) - SetMin(NonBlank) + 1

ShortInput(transcript) == transcript = "" \/ TrimmedLen(transcript) < 10

\* C5: for a transcript that is empty, blank or shorter than 10 characters
\* after trimming, extract_candidate_info returns at once with all nine
\* fields absent; no extractor runs, no load is attempted and the handle is
\* left as it was.
C5_ShortTranscript ==
    [][(calls' = calls + 1 /\ IsExtract(last') /\ ShortInput(last'.transcript)) =>
           /\ last'.outcome = "returned"
           /\ last'.path = "short"
           /\ DOMAIN last'.result = NineKeys
           /\ \A k \in NineKeys : IsNone(last'.result[k])
           /\ ~last'.loadTried /\ IsNone(last'.tagged)
           /\ nlp' = nlp /\ loads' = loads /\ assigns' = assigns]_vars

C5_Witness ==
    /\ IsExtract(last) /\ last.path = "short"
    /\ Len(last.transcript) >= 10
    /\ Strip(last.transcript) # ""
    /\ nlp = "None" /\ calls = MaxCalls /\ loads = 0


\* the collaborator is unavailable at the end of a call: no model is cached
Unavailable(call) == call.handleAfter # "Model"

\* C6: with the collaborator unavailable, two calls of extract_candidate_info
\* on the same transcript return identical results, wherever in the life of
\* the process they are made.
C6_Idempotent ==
    (/\ IsExtract(earlier) /\ IsExtract(last)
     /\ earlier.transcript = last.transcript
     /\ Unavailable(earlier) /\ Unavailable(last))
        => /\ earlier.outcome = "returned" /\ last.outcome = "returned"
           /\ earlier.result = last.result

C6_Witness ==
    /\ IsExtract(earlier) /\ IsExtract(last)
    /\ earlier.transcript = last.transcript
    /\ earlier.path = "full" /\ earlier.loadTried /\ Unavailable(earlier)
    /\ last.path = "full" /\ ~last.loadTried /\ Unavailable(last)
    /\ calls = MaxCalls
    /\ ~IsNone(last.result.name) /\ ~IsNone(last.result.college)

SimpleFields == {"email", "phone", "experience", "skills"}

\* C7: the email, phone, experience and skills fields of a returned result
\* depend on the transcript only: they are what the four simple extractors
\* give for the transcript and are equal for two calls on the same
\* transcript, whether the collaborator is unavailable or available and
\* whatever annotation it produces.
C7_SimpleFields ==
    /\ \A call \in {earlier, last} :
          (IsExtract(call) /\ call.path = "full" /\ call.outcome = "returned") =>
              /\ call.result.email = extract_email(call.transcript)
              /\ call.result.phone = extract_phone(call.transcript)
              /\ call.result.experience = extract_experience(call.transcript)
              /\ call.result.skills = extract_skills(call.transcript)
    /\ (/\ IsExtract(earlier) /\ IsExtract(last)
        /\ earlier.transcript = last.transcript
        /\ earlier.outcome = "returned" /\ last.outcome = "returned")
          => \A k \in SimpleFields : earlier.result[k] = last.result[k]

C7_Witness ==
    /\ IsExtract(earlier) /\ IsExtract(last)
    /\ earlier.transcript = last.transcript
    /\ earlier.outcome = "returned" /\ last.outcome = "returned"
    /\ earlier.doc.present /\ last.doc.present
    /\ earlier.doc.ents = <<>> /\ last.doc.ents # <<>>
    /\ earlier.result # last.result
    /\ \A k \in SimpleFields \ {"skills"} : ~IsNone(last.result[k])

---------------------------------------------------------------------------
(* Properties of extract_degree *)

IsDegreeCall(call) == call.op = "extract_degree"

\* C8: extract_degree returns the result of the first rule that succeeds, in
\* the order rule 1, rule 2, rule 3, rule 4; with no annotation only rules 1
\* and 2 are tried and the result is absent when neither succeeds, even if
\* the transcript holds an abbreviation with a specialization.
C8_RuleOrder ==
    IsDegreeCall(last) =>
        LET t == last.transcript
            got == last.result.degree
        IN  /\ ~IsNone(DegreeRule1(t)) => got = DegreeRule1(t)
            /\ (IsNone(DegreeRule1(t)) /\ ~IsNone(DegreeRule2(t))) => got = DegreeRule2(t)
            /\ (IsNone(DegreeRule1(t)) /\ IsNone(DegreeRule2(t))) =>
                  /\ ~last.doc.present => IsNone(got)
                  /\ (last.doc.present /\ ~IsNone(DegreeRule3(last.doc)))
                        => got = DegreeRule3(last.doc)
                  /\ (last.doc.present /\ IsNone(DegreeRule3(last.doc)))
                        => got = DegreeRule4(t, last.doc)

C8_Witness ==
    /\ IsDegreeCall(last)
    /\ ~last.doc.present
    /\ ~IsNone(AbbrevWithSpec(last.transcript, 1))
    /\ IsNone(last.result.degree)

\* the match of rule 1 in a transcript: the position of "degree in
\* <phrase>", the specialization the phrase resolves to, and the searched
\* context: all text before the match, and the 200 characters from the
\* match position
Rule1Match(t) ==
    LET Cut(lower, pos) ==
            [found  |-> pos # -1,
             spec   |-> IF pos = -1 THEN <<>> ELSE MatchedSpec(SpecMentioned(t, pos)),
             before |-> IF pos = -1 THEN "" ELSE Slice(lower, 0, pos),
             after  |-> IF pos = -1 THEN "" ELSE Slice(lower, pos, pos + 200)]
    IN  Cut(Lower(t), DegreeInSearch(t))

\* rule 1 applies: the phrase is found and resolves to a specialization
Rule1Applies(m) == m.found /\ m.spec # <<>>

\* the specialization as it is written in the result
Rule1Spec(m) == Title(m.spec[1])

\* one of the forms occurs in the searched context
Present(m, forms) ==
    \E f \in forms : Contains(m.before, f) \/ Contains(m.after, f)

MasterFamily == Range(master_indicators)
BachelorFamily == Range(bachelor_indicators)

\* the bachelor-level prefix of the sub-type found, "" when none is found
SubTypePrefix(m) ==
    IF Present(m, {"b.e", "b e", "b.e."}) THEN "B.E. in "
    ELSE IF Present(m, {"b.tech", "btech", "b.tech."}) THEN "B.Tech in "
    ELSE IF Present(m, {"bachelor", "bachelors"}) THEN "Bachelor's in "
    ELSE ""

SingleFamily(m, got) ==
    LET Cases(master, bachelor, spec, prefix) ==
            /\ (master /\ ~bachelor) => got = Some("M.Tech in " \o spec)
            /\ (bachelor /\ ~master) => got = Some(prefix \o spec)
            /\ (~master /\ ~bachelor) => got = Some(spec)
            /\ got = Some(spec) =>
                  \/ (~master /\ ~bachelor)
                  \/ (bachelor /\ prefix = "")
    IN  Rule1Applies(m) =>
            Cases(Present(m, MasterFamily), Present(m, BachelorFamily),
                  Rule1Spec(m), SubTypePrefix(m))

\* C9 (as the code has it): with indicators of exactly one family the result
\* carries that family's level: "M.Tech in <spec>" for master only; for
\* bachelor only "B.E." if a B.E. form is found, else "B.Tech" if a B.Tech
\* form is found, else "Bachelor's" if "bachelor" is found, else no prefix.
\* The specialization stands alone when neither family is present, or when
\* the bachelor family is present without any of those three forms.
C9_SingleFamily ==
    IsDegreeCall(last) => SingleFamily(Rule1Match(last.transcript), last.result.degree)

BachelorOnlyNoSubType(m, got) ==
    /\ Rule1Applies(m)
    /\ Present(m, BachelorFamily)
    /\ ~Present(m, MasterFamily)
    /\ SubTypePrefix(m) = ""
    /\ got = Some(Rule1Spec(m))

C9_Witness ==
    /\ IsDegreeCall(last)
    /\ BachelorOnlyNoSubType(Rule1Match(last.transcript), last.result.degree)

SingleFamilyAsStated(m, got) ==
    LET Cases(master, bachelor, spec, prefix) ==
            /\ (master /\ ~bachelor) => got = Some("M.Tech in " \o spec)
            /\ (bachelor /\ ~master) =>
                  got = Some((IF prefix = "" THEN "Bachelor's in " ELSE prefix) \o spec)
            /\ (~master /\ ~bachelor) => got = Some(spec)
            /\ got = Some(spec) => (~master /\ ~bachelor)
    IN  Rule1Applies(m) =>
            Cases(Present(m, MasterFamily), Present(m, BachelorFamily),
                  Rule1Spec(m), SubTypePrefix(m))

\* C9 as stated: for bachelor only the prefix is "B.E.", else "B.Tech", else
\* "Bachelor's"; the specialization stands alone only when neither family is
\* present.
C9_AsStated ==
    IsDegreeCall(last) =>
        SingleFamilyAsStated(Rule1Match(last.transcript), last.result.degree)

\* the distance from the match position of the nearest occurrence of one of
\* a family's indicators in the searched context
Nearest(m, family) ==
    SetMin({Len(m.before) - q : q \in UNION {Occurrences(m.before, f) : f \in family}}
           \cup UNION {Occurrences(m.after, f) : f \in family})

BothFamilies(m) ==
    /\ Rule1Applies(m)
    /\ Present(m, MasterFamily)
    /\ Present(m, BachelorFamily)

NearerFamily(m, got) ==
    LET Cases(master, bachelor, spec) ==
            /\ got = Some("M.Tech in " \o spec) <=> master < bachelor
            /\ master = bachelor => got = Some(SubTypePrefix(m) \o spec)
    IN  BothFamilies(m) =>
            Cases(Nearest(m, MasterFamily), Nearest(m, BachelorFamily), Rule1Spec(m))

\* C10: with indicators of both families present the result is master-level
\* exactly when the nearest master indicator is strictly closer to the match
\* position than the nearest bachelor indicator; a tie goes to the bachelor
\* family.
C10_NearerFamily ==
    IsDegreeCall(last) => NearerFamily(Rule1Match(last.transcript), last.result.degree)

TieGoesToBachelor(m, got) ==
    /\ BothFamilies(m)
    /\ Nearest(m, MasterFamily) = Nearest(m, BachelorFamily)
    /\ got = Some(Rule1Spec(m))

C10_Witness ==
    /\ IsDegreeCall(last)
    /\ TieGoesToBachelor(Rule1Match(last.transcript), last.result.degree)


---------------------------------------------------------------------------
(* Properties of the specialization match *)

SpecList == Range(SPECIALIZATIONS)

\* the entries of the list that are part of the phrase or hold the phrase
PhraseCandidates(phrase) ==
    {spec \in SpecList : Contains(phrase, spec) \/ Contains(spec, phrase)}

\* the text of a result after its level prefix, in lower case
ReportedSpec(got) ==
    LET After(k) == Lower(IF k = -1 THEN got ELSE SliceFrom(got, k + 4))
    IN  After(Find(got, " in "))

LongestCandidate(found, phrase, got) ==
    LET Chosen(cands, spec) ==
            /\ spec \in cands
            /\ \A other \in cands : Len(other) <= Len(spec)
        Among(cands) ==
            IF cands = {} THEN TRUE
            ELSE ~IsNone(got) /\ Chosen(cands, ReportedSpec(got[1]))
    IN  found => Among(PhraseCandidates(phrase))

\* C11: rule 1 reports, among the entries of the specialization list that
\* are part of the captured phrase or hold the captured phrase, one of
\* greatest length.
C11_LongestCandidate ==
    IsDegreeCall(last) =>
        LET Matched(pos) ==
                LongestCandidate(pos # -1,
                                 IF pos = -1 THEN "" ELSE SpecMentioned(last.transcript, pos),
                                 last.result.degree)
        IN  Matched(DegreeInSearch(last.transcript))

SeveralCandidates(found, phrase, got) ==
    /\ found
    /\ ~IsNone(got)
    /\ \E i, j \in 1..Len(SPECIALIZATIONS) :
          /\ i < j
          /\ {SPECIALIZATIONS[i], SPECIALIZATIONS[j]} \subseteq PhraseCandidates(phrase)
          /\ Len(SPECIALIZATIONS[i]) < Len(SPECIALIZATIONS[j])
          /\ ReportedSpec(got[1]) = SPECIALIZATIONS[j]

C11_Witness ==
    /\ IsDegreeCall(last)
    /\ LET Matched(pos) ==
               SeveralCandidates(pos # -1,
                                 IF pos = -1 THEN "" ELSE SpecMentioned(last.transcript, pos),
                                 last.result.degree)
       IN  Matched(DegreeInSearch(last.transcript))


\* a place in the text where the reported entry matches and no longer entry
\* of the list does
LongestAtSomePlace(text, spec) ==
    \E j \in Occurrences(text, spec) :
        \A other \in SpecList : StartsAt(text, other, j) => Len(other) <= Len(spec)

LongerFirst(text, got) ==
    LET Reported(spec) ==
            (spec \in SpecList /\ Contains(text, spec)) => LongestAtSomePlace(text, spec)
    IN  ~IsNone(got) => Reported(ReportedSpec(got[1]))

\* C12: wherever the resolver matches a specialization of the list, a longer
\* entry that matches at the same place is preferred: the reported entry
\* occurs somewhere in the transcript where no longer entry matches.
C12_LongerFirst ==
    IsDegreeCall(last) => LongerFirst(Lower(last.transcript), last.result.degree)


\* the canonical prefix of a full degree name "<level> of <field>"
CanonicalPrefix(level, field) ==
    IF field = "business administration" THEN "MBA"
    ELSE LET letter == IF level = "bachelor" THEN "B" ELSE "M"
         IN  CASE field = "technology"  -> letter \o ".Tech"
               [] field = "engineering" -> letter \o ".E."
               [] field = "science"     -> letter \o ".Sc"
               [] field = "arts"        -> letter \o ".A."
               [] field = "commerce"    -> letter \o ".Com"

\* the result for the first full degree name "<level> of <field>" that is
\* followed by a specialization: <<result>>, or <<>> when there is none
CanonicalResult(s, level, fields) ==
    LET Named(i, g, spec) ==
            LET field == CHOOSE f \in Range(fields) : PhraseEnd(s, level \o " of " \o f, i) = g
            IN  Some(CanonicalPrefix(level, field) \o " in " \o Title(spec))
        AtGroup(i, g) == Named(i, g, SpecAt(s, SpecAfter(s, g))[1])
        Found(i) == IF i = -1 THEN None ELSE AtGroup(i, FullOfGroupEnd(s, level, fields, i))
    IN  Found(FirstOf({k \in 0..(Len(s) - 1) : FullOfGroupEnd(s, level, fields, k) # -1}))

\* the result for the first "<level> in <spec>", a degree name without field:
\* <<result>>, or <<>> when there is none
PlainResult(s, level) ==
    LET Named(b) ==
            Some((IF level = "bachelor" THEN "Bachelor's" ELSE "Master's")
                 \o " in " \o Title(SpecAt(s, b)[1]))
        Found(i) == IF i = -1 THEN None ELSE Named(FullInSpecPos(s, level, i))
    IN  Found(FirstOf({k \in 0..(Len(s) - 1) : FullInSpecPos(s, level, k) # -1}))

FullNameResult(m, s, got) ==
    LET Expected(e) == ~IsNone(e) => got = e
    IN  ~Rule1Applies(m) =>
            Expected(OrElse(CanonicalResult(s, "bachelor", BACHELOR_FIELDS),
                     OrElse(CanonicalResult(s, "master", MASTER_FIELDS),
                     OrElse(PlainResult(s, "bachelor"),
                            PlainResult(s, "master")))))

\* C13: when rule 1 does not apply and the transcript holds a full degree
\* name followed by a specialization, the result of rule 2 is "<prefix> in
\* <title-cased specialization>", the prefix being the canonical prefix of
\* the level and the field of "<level> of <field>" (B.Tech/M.Tech, B.E./M.E.,
\* B.Sc/M.Sc, B.A./M.A., B.Com/M.Com, MBA) and never taken from the words of
\* the specialization: a name without field gives "Bachelor's" or "Master's".
C13_PrefixFromName ==
    IsDegreeCall(last) =>
        FullNameResult(Rule1Match(last.transcript), Lower(last.transcript),
                       last.result.degree)


---------------------------------------------------------------------------
(* Properties of the field extractors *)

IsCallOf(call, op) == call.op = op

\* the matches of experience pattern k whose number of years is in range:
\* the offsets at which they start (a match of the patterns that begin with
\* the number starts where the run of digits starts)
InRangeMatches(s, k) ==
    {i \in 0..(Len(s) - 1) :
        /\ ExperienceMatches(s, k, i)
        /\ (k # 2 => At(s, i - 1) \notin DigitSet)
        /\ LET InRange(years) == 0 < years /\ years <= 50
           IN  InRange(IntOf(ExperienceGroup(s, k, i)))}

\* the result for the first pattern, from pattern k on, that has a match in
\* range: its leftmost such match
RECURSIVE FirstInRange(_, _)
FirstInRange(s, k) ==
    LET Among(starts) ==
            IF starts = {} THEN FirstInRange(s, k + 1)
            ELSE Some(StrOf(IntOf(ExperienceGroup(s, k, SetMin(starts)))) \o " years")
    IN  IF k > 3 THEN None ELSE Among(InRangeMatches(s, k))

\* C14: extract_experience returns "<N> years" for the first match, the
\* patterns taken in their priority order, whose N satisfies 0 < N <= 50, and
\* is absent only when no match of any pattern has N in range.
C14_FirstInRange ==
    IsCallOf(last, "extract_experience") =>
        last.result.experience = FirstInRange(last.transcript, 1)


\* the number of digits and plus signs of a phone candidate
PhoneDigits(phone) == CountIn(phone, 0, DigitSet \cup {"+"})

\* the phone candidate matched at offset j, stripped
PhoneCandidate(s, j) == Strip(Slice(s, j, PhoneMatchEnd(s, j)))

\* the offsets of the phone-pattern matches whose candidate has between 10
\* and 15 digits and plus signs
ValidPhoneStarts(s) ==
    {j \in 0..(Len(s) - 1) :
        /\ PhoneMatchEnd(s, j) # -1
        /\ PhoneDigits(PhoneCandidate(s, j)) \in PhoneMinDigits..PhoneMaxDigits}

\* C15: extract_phone returns the first phone-pattern match whose count of
\* digits and plus signs is between 10 and 15, and is absent when there is no
\* such match; every phone it returns satisfies the bound.
C15_FirstValidPhone ==
    IsCallOf(last, "extract_phone") =>
        LET Expected(starts) ==
                IF starts = {} THEN None
                ELSE Some(PhoneCandidate(last.transcript, SetMin(starts)))
            Bounded(phone) ==
                IsNone(phone) \/ PhoneDigits(phone[1]) \in PhoneMinDigits..PhoneMaxDigits
        IN  /\ last.result.phone = Expected(ValidPhoneStarts(last.transcript))
            /\ Bounded(last.result.phone)

\* a phone of exactly ten digits is returned
C15_Witness ==
    /\ IsCallOf(last, "extract_phone")
    /\ ~IsNone(last.result.phone)
    /\ PhoneDigits(last.result.phone[1]) = PhoneMinDigits


\* the entries of the lexicon found in a transcript: single-word entries as
\* whitespace-delimited tokens, multi-word entries as substrings, ignoring case
SkillsFound(t) ==
    {k \in SKILLS_KEYWORDS :
        IF Contains(k, " ") THEN Contains(Lower(t), k) ELSE k \in Tokens(Lower(t))}

\* the skills listed by a result, in order
SkillsListed(skills) == IF IsNone(skills) THEN <<>> ELSE SplitOn(skills[1], ", ")

\* C16: extract_skills returns the lexicon entries found, title-cased, sorted
\* ascending without duplicates and joined by ", "; it is absent exactly when
\* no entry is found.
C16_SkillsList ==
    IsCallOf(last, "extract_skills") =>
        LET Listed(parts, found) ==
                /\ Range(parts) = {Title(k) : k \in found}
                /\ \A i \in 1..(Len(parts) - 1) : StrLess(parts[i], parts[i + 1])
                /\ IsNone(last.result.skills) <=> found = {}
        IN  Listed(SkillsListed(last.result.skills), SkillsFound(last.transcript))

\* 'I know Python and have used AWS and Docker' gives 'Aws, Docker, Python'
C16_Witness ==
    /\ IsCallOf(last, "extract_skills")
    /\ last.transcript = "I know Python and have used AWS and Docker"
    /\ last.result.skills = Some("Aws, Docker, Python")


\* the offsets of the gazetteer cities that occur in a transcript as words
CityStarts(t) == {i \in WordStarts(t) : Lower(WordAt(t, i)) \in CITIES}

\* the GPE spans of an annotation that are not excluded terms, are longer
\* than 2 characters and contain no digit
UsableGPE(doc) ==
    {loc \in Range(EntTexts(doc, "GPE")) :
        /\ Lower(loc) \notin EXCLUDED_LOCATION_TERMS
        /\ Len(loc) > 2
        /\ ~\E i \in 0..(Len(loc) - 1) : At(loc, i) \in DigitSet}

\* C17: extract_location returns the title-cased first gazetteer city of the
\* transcript whenever one occurs, whatever the annotation holds; otherwise,
\* with an annotation, a longest usable GPE span; otherwise nothing.  An
\* excluded term is never returned.
C17_Location ==
    IsCallOf(last, "extract_location") =>
        LET Located(t, doc, got, cities, spans) ==
                /\ cities # {} => got = Some(Title(WordAt(t, SetMin(cities))))
                /\ cities = {} /\ doc.present /\ spans # {} =>
                       /\ ~IsNone(got)
                       /\ got[1] \in spans
                       /\ \A loc \in spans : Len(loc) <= Len(got[1])
                /\ cities = {} /\ (~doc.present \/ spans = {}) => IsNone(got)
                /\ ~IsNone(got) => Lower(got[1]) \notin EXCLUDED_LOCATION_TERMS
        IN  Located(last.transcript, last.doc, last.result.location,
                    CityStarts(last.transcript), UsableGPE(last.doc))

\* no city occurs, the annotation tags an excluded term and a usable span,
\* and the usable span is returned
C17_Witness ==
    /\ IsCallOf(last, "extract_location")
    /\ CityStarts(last.transcript) = {}
    /\ last.doc.present
    /\ \E loc \in Range(EntTexts(last.doc, "GPE")) : Lower(loc) \in EXCLUDED_LOCATION_TERMS
    /\ ~IsNone(last.result.location)


\* the index of the first sentence of an annotation that contains a
\* graduation keyword, or 0
FirstKeywordSentence(doc) ==
    LET hits == {k \in 1..Len(doc.sents) :
                    ContainsAny(Lower(doc.sents[k]), GRADUATION_KEYWORDS)}
    IN  IF hits = {} THEN 0 ELSE SetMin(hits)

\* the offsets of the years of a sentence that lie in [1950, 2030]
ValidYearStarts(text) ==
    {i \in WordStarts(text) :
        /\ IsYearWord(WordAt(text, i))
        /\ IntOf(WordAt(text, i)) \in MinYear..MaxYear}

\* C18: with an annotation, extract_graduation_year returns the first year in
\* [1950, 2030] of the first sentence that contains a graduation keyword; a
\* year out of range earlier in that sentence does not prevent it.
C18_FirstValidYear ==
    IsCallOf(last, "extract_graduation_year") /\ last.doc.present =>
        LET InSentence(text, starts) ==
                starts # {} =>
                    last.result.graduation_year = Some(IntOf(WordAt(text, SetMin(starts))))
            First(k) ==
                k # 0 => InSentence(last.doc.sents[k], ValidYearStarts(last.doc.sents[k]))
        IN  First(FirstKeywordSentence(last.doc))


\* the years 2000 to 2039 that occur in a transcript as words
RecentYears(t) ==
    {IntOf(WordAt(t, i)) : i \in {j \in WordStarts(t) : IsRecentYearWord(WordAt(t, j))}}

\* no sentence of the annotation has both a graduation keyword and a year in
\* [1950, 2030]: the context scan has nothing to yield
NoContextYear(doc) ==
    \A k \in 1..Len(doc.sents) :
        ContainsAny(Lower(doc.sents[k]), GRADUATION_KEYWORDS)
            => ValidYearStarts(doc.sents[k]) = {}

\* C19: without an annotation, or when the context scan yields nothing,
\* extract_graduation_year returns the maximum of the valid years among the
\* years 2000 to 2039 of the transcript, and is absent when there is none.
C19_FallbackMax ==
    /\ IsCallOf(last, "extract_graduation_year")
    /\ (~last.doc.present \/ NoContextYear(last.doc))
    => LET Latest(valid) ==
               /\ valid = {} => IsNone(last.result.graduation_year)
               /\ valid # {} =>
                      /\ ~IsNone(last.result.graduation_year)
                      /\ last.result.graduation_year[1] \in valid
                      /\ \A y \in valid : y <= last.result.graduation_year[1]
       IN  Latest({y \in RecentYears(last.transcript) : y \in MinYear..MaxYear})

\* without an annotation, a transcript with 2015, 2020 and 2035 gives 2020
C19_Witness ==
    /\ IsCallOf(last, "extract_graduation_year")
    /\ ~last.doc.present
    /\ {2015, 2020, 2035} \subseteq RecentYears(last.transcript)
    /\ last.result.graduation_year = Some(2020)


---------------------------------------------------------------------------
(* Properties of the text handed to the tagger *)

\* the sentences of a transcript: the pieces between its full stops,
\* trimmed, the blank ones left out
SentencePieces(t) == StripAll(SplitDots(t))

\* a sentence that is retained: it holds an extraction keyword or has fewer
\* than 100 characters
Retained(sent) ==
    \/ \E k \in SAMPLER_KEYWORDS : Contains(Lower(sent), k)
    \/ Len(sent) < ShortSentenceLen

\* the first n elements of a sequence and the last n, position by position
Leading(seq, n) == [k \in 1..(IF Len(seq) < n THEN Len(seq) ELSE n) |-> seq[k]]
Trailing(seq, n) ==
    [k \in 1..(IF Len(seq) < n THEN Len(seq) ELSE n) |->
        seq[Len(seq) - (IF Len(seq) < n THEN Len(seq) ELSE n) + k]]

\* the sample of a long transcript: at most 25 retained sentences, then the
\* first 3 and the last 3 sentences
IsSample(parts, sents, kept) ==
    /\ parts = Leading(kept, MaxRelevantSentences)
               \o Leading(sents, EdgeSentences) \o Trailing(sents, EdgeSentences)
    /\ Len(parts) <= MaxRelevantSentences + 2 * EdgeSentences

\* the text that is to be handed to the tagger for a transcript
IsTaggerText(t, text, sents, kept) ==
    IF Len(t) <= LongTranscriptLen THEN text = t
    ELSE IF kept = <<>> THEN text = SubSeq(t, 1, LongTranscriptLen)
    ELSE IsSample(SplitOn(text, ". "), sents, kept)

\* C20: on the full path the tagger is not called when it is unavailable;
\* otherwise it is handed the full transcript when that has at most 2000
\* characters, else at most 25 retained sentences followed by the first 3
\* and the last 3 sentences (at most 31 sentences), and the first 2000
\* characters of the transcript when no sentence is retained.
C20_TaggerText ==
    IsCallOf(last, "extract_candidate_info") /\ last.path = "full" =>
        LET Handed(sents) ==
                IsTaggerText(last.transcript, last.tagged[1], sents,
                             SelectSeq(sents, Retained))
        IN  IF last.available
            THEN ~IsNone(last.tagged) /\ Handed(SentencePieces(last.transcript))
            ELSE IsNone(last.tagged)

\* a long transcript with more than 25 retained sentences is sampled to 31
C20_Witness ==
    /\ IsCallOf(last, "extract_candidate_info")
    /\ last.available
    /\ Len(last.transcript) > LongTranscriptLen
    /\ Len(SelectSeq(SentencePieces(last.transcript), Retained)) > MaxRelevantSentences
    /\ Len(SplitOn(last.tagged[1], ". ")) = MaxRelevantSentences + 2 * EdgeSentences


---------------------------------------------------------------------------
(* Properties of degree rule 4 *)

\* a call of extract_degree that is answered by rule 4: rules 1 to 3 yield
\* nothing and a degree-context sentence of the annotation holds an
\* abbreviation
Rule4Call(call) ==
    /\ IsDegreeCall(call)
    /\ call.doc.present
    /\ IsNone(DegreeRule1(call.transcript))
    /\ IsNone(DegreeRule2(call.transcript))
    /\ IsNone(DegreeRule3(call.doc))
    /\ DegreeSentenceIdx(call.doc.sents) # 0

\* the neighbourhoods in which rule 4 may find a specialization, each with
\* the skills cues that apply to it: the 60 characters on either side of its
\* first occurrence in the character window around degree_pos, and the
\* previous, the current and the next sentence
SpecNeighbourhoods(t, sents, idx, degree_pos, spec) ==
    LET Around(window, spec_pos) ==
            Slice(window, Max2(0, spec_pos - SnippetHalfWidth),
                  Min2(Len(window), spec_pos + Len(spec) + SnippetHalfWidth))
        InWindow(window) ==
            IF degree_pos # -1 /\ Contains(window, spec)
            THEN {[text |-> Around(window, Find(window, spec)),
                   cues |-> skill_context_keywords]}
            ELSE {}
    IN  InWindow(Lower(Slice(t, Max2(0, degree_pos - ContextHalfWidth),
                             Min2(Len(t), degree_pos + ContextHalfWidth))))
        \cup {[text |-> Lower(sents[k]), cues |-> skill_indicators] :
                 k \in {j \in {Max2(1, idx - 1), idx, Min2(Len(sents), idx + 1)} :
                          Contains(Lower(sents[j]), spec)}}

\* C21: in rule 4 a specialization is attached to the abbreviation only if a
\* neighbourhood it is found in carries no skills-context cue, in the
\* character-window search and in the adjacent-sentence search alike.
C21_NoSkillsCue ==
    Rule4Call(last) /\ Contains(last.result.degree[1], " in ") =>
        LET Clean(spec, hoods) ==
                \E h \in hoods :
                    /\ ~ContainsAny(h.text, h.cues)
                    /\ (ContainsAny(h.text, degree_context_keywords)
                        \/ Len(spec) > MinLenientSpecLen)
            Attached(sents, idx, spec) ==
                Clean(spec,
                      SpecNeighbourhoods(last.transcript, sents, idx,
                          DegreePos(last.transcript, sents[idx],
                                    simple_patterns[SimplePatternIn(sents[idx])].name),
                          spec))
        IN  Attached(last.doc.sents, DegreeSentenceIdx(last.doc.sents),
                     ReportedSpec(last.result.degree[1]))


\* the offset in the transcript of the abbreviation found in a sentence,
\* located with the pattern that found it; -1 when the sentence does not
\* occur in the transcript
FoundAbbrevPos(t, sent_text, p) ==
    LET Located(m, char_start) == IF m # -1 /\ char_start # -1 THEN char_start + m ELSE -1
    IN  Located(AbbrevAloneSearch(sent_text, simple_patterns[p].alts),
                Find(Lower(t), Lower(sent_text)))

\* C22: in rule 4, whichever abbreviation is found, the bare abbreviation is
\* returned only when neither the window of 400 characters on either side of
\* the abbreviation's offset nor the previous, current and next sentences
\* yield an acceptable specialization.
C22_BothSearches ==
    Rule4Call(last) =>
        LET Bare(sents, idx, p) ==
                last.result.degree = Some(simple_patterns[p].name) =>
                    LET Neither(pos) ==
                            /\ pos # -1 => WindowSpec(last.transcript, pos) = <<>>
                            /\ AdjacentSpec(sents, idx) = <<>>
                    IN  Neither(FoundAbbrevPos(last.transcript, sents[idx], p))
            InSentence(sents, idx) == Bare(sents, idx, SimplePatternIn(sents[idx]))
        IN  InSentence(last.doc.sents, DegreeSentenceIdx(last.doc.sents))


---------------------------------------------------------------------------
(* Properties of the graduation year and of the sample *)

\* C23: a graduation year that is returned lies in [1950, 2030], with an
\* annotation and without; a year from 2031 to 2039 is never returned.
C23_YearInRange ==
    IsCallOf(last, "extract_graduation_year") =>
        \/ IsNone(last.result.graduation_year)
        \/ /\ last.result.graduation_year[1] \in MinYear..MaxYear
           /\ last.result.graduation_year[1] \notin (MaxYear + 1)..2039

\* with an annotation, a transcript that holds a year from 2031 to 2039
\* gets an earlier year
C23_Witness ==
    /\ IsCallOf(last, "extract_graduation_year")
    /\ last.doc.present
    /\ \E y \in RecentYears(last.transcript) : y > MaxYear
    /\ ~IsNone(last.result.graduation_year)


\* the number of times an element occurs in a sequence
Count(seq, x) == Cardinality({k \in 1..Len(seq) : seq[k] = x})

\* C24: for a transcript of more than 2000 characters the text handed to the
\* tagger holds each sentence of the transcript at most as often as the
\* transcript does, and is not longer than the transcript.
C24_SampleReduces ==
    /\ IsCallOf(last, "extract_candidate_info")
    /\ last.available
    /\ Len(last.transcript) > LongTranscriptLen
    => LET Reduced(text, sents) ==
               /\ Len(text) <= Len(last.transcript)
               /\ SelectSeq(sents, Retained) # <<>> =>
                      LET Once(parts) ==
                              \A k \in 1..Len(parts) :
                                  Count(parts, parts[k]) <= Count(sents, parts[k])
                      IN  Once(SplitOn(text, ". "))
       IN  Reduced(last.tagged[1], SentencePieces(last.transcript))


---------------------------------------------------------------------------
(* Properties of the process_audio workflow *)

\* C25: once the uploaded file has been saved under its unique name, it no
\* longer exists when the request has ended, after success and after a
\* failure of transcription, extraction, validation or the database write.
C25_TempFileRemoved ==
    request.pc = "done" /\ request.saved => request.file \notin uploads

\* C26: a transcription that returns empty text or fewer than 10 characters
\* after trimming ends the request with status 400, and neither extraction
\* nor a database write has taken place.
C26_InsufficientIs400 ==
    /\ request.pc = "done"
    /\ ~IsNone(request.transcribed)
    /\ Insufficient(request.transcribed[1])
    => /\ request.status = 400
       /\ calls = 0
       /\ candidates = <<>>


---------------------------------------------------------------------------
(* Properties of create_candidate *)

\* the checks of the validation in their order, each with its message
ValidationChecks ==
    <<[field |-> "email", message |-> "Invalid email format"],
      [field |-> "phone", message |-> "Invalid phone number format"],
      [field |-> "graduation_year", message |-> "Invalid graduation year"],
      [field |-> "name", message |-> "Invalid name format"]>>

\* the check of one field fails on the data
CheckFails(data, field) ==
    CASE field = "email" -> ~Falsy(data.email) /\ ~db_validate_email(data.email)
      [] field = "phone" -> ~Falsy(data.phone) /\ ~db_validate_phone(data.phone)
      [] field = "graduation_year" ->
             ~FalsyYear(data.graduation_year) /\ ~db_validate_year(data.graduation_year)
      [] field = "name" -> ~Falsy(data.name) /\ ~validate_name(data.name)

FailingChecks(data) ==
    {k \in 1..Len(ValidationChecks) : CheckFails(data, ValidationChecks[k].field)}

\* C27: create_candidate adds a row only when the sanitized data passes the
\* checks of email, phone, graduation year and name; when a check fails it
\* raises ValueError with the message of the first failing check in that
\* order and the table is unchanged; when it returns, exactly one row, the
\* sanitized data, has been added and its id is returned.
C27_InsertAfterValidation ==
    last.op = "create_candidate" =>
        LET Settled(data_dict, failing, before) ==
                /\ failing # {} =>
                       /\ last.outcome = "ValueError"
                       /\ \E k \in failing :
                              /\ \A j \in failing : k <= j
                              /\ last.result.detail = ValidationChecks[k].message
                /\ last.outcome = "ValueError" => failing # {}
                /\ last.outcome # "returned" => candidates = before
                /\ last.outcome = "returned" =>
                       /\ failing = {}
                       /\ Len(candidates) = Len(before) + 1
                       /\ SubSeq(candidates, 1, Len(before)) = before
                       /\ candidates[Len(candidates)].data = data_dict
                       /\ candidates[Len(candidates)].id = last.result.id
                       /\ \A k \in 1..Len(before) : before[k].id # last.result.id
            Sanitize(data_dict) ==
                Settled(data_dict, FailingChecks(data_dict), last.result.before)
        IN  Sanitize(Sanitized(last.result.data))

\* a call on a table that holds a row already, with data on which two
\* checks fail, has raised ValueError
C27_Witness ==
    /\ last.op = "create_candidate"
    /\ last.outcome = "ValueError"
    /\ Cardinality(FailingChecks(Sanitized(last.result.data))) >= 2
    /\ Len(candidates) >= 1

====
